---- MODULE Spec2Model ----
(***************************************************************************)
(* Happy Hotels: the chat turn controller (POST /api/chat), its draft      *)
(* validator and confirmation gate, the MCP client, and the booking API    *)
(* (record store) behind it.                                               *)
(*                                                                         *)
(* JS strings are sequences of one-character strings, so that trim(),      *)
(* toLowerCase(), includes() and the store's length and pattern rules are  *)
(* computed, not assumed.  A JS value is a record [k, s, n]: k is its      *)
(* typeof-like kind, s its characters (strings), n its number counted in   *)
(* halves (numbers; 3 is n = 6, 1.5 is n = 3), 0/1 (booleans) or a date    *)
(* code (dates).  A JS object (a draft, a payload, a stored booking) is a  *)
(* function from its own keys to values; an absent key reads undefined.    *)
(***************************************************************************)
EXTENDS Integers, Sequences, FiniteSets, TLC

\* ------------------------------------------------------------------------
\* Bounds of the model
\* ------------------------------------------------------------------------
\* rows the booking table may hold
MaxBookings == 2
\* chat turns in one run
MaxTurns == 2

\* ------------------------------------------------------------------------
\* String literals
\* ------------------------------------------------------------------------
S_CityHotel == <<"C", "i", "t", "y", " ", "H", "o", "t", "e", "l">>
S_ResortHotel == <<"R", "e", "s", "o", "r", "t", " ", "H", "o", "t", "e", "l">>
S_BB == <<"B", "B">>
S_HB == <<"H", "B">>
S_FB == <<"F", "B">>
S_SC == <<"S", "C">>
S_Corporate == <<"C", "o", "r", "p", "o", "r", "a", "t", "e">>
S_Direct == <<"D", "i", "r", "e", "c", "t">>
S_Groups == <<"G", "r", "o", "u", "p", "s">>
S_OnlineTA == <<"O", "n", "l", "i", "n", "e", " ", "T", "A">>
S_Transient == <<"T", "r", "a", "n", "s", "i", "e", "n", "t">>
S_Contract == <<"C", "o", "n", "t", "r", "a", "c", "t">>
S_Group == <<"G", "r", "o", "u", "p">>
S_Other == <<"O", "t", "h", "e", "r">>
S_Canceled == <<"C", "a", "n", "c", "e", "l", "e", "d">>
S_CheckedIn == <<"C", "h", "e", "c", "k", "e", "d", "-", "I", "n">>
S_NoShow == <<"N", "o", "-", "S", "h", "o", "w">>
S_january == <<"j", "a", "n", "u", "a", "r", "y">>
S_february == <<"f", "e", "b", "r", "u", "a", "r", "y">>
S_march == <<"m", "a", "r", "c", "h">>
S_april == <<"a", "p", "r", "i", "l">>
S_may == <<"m", "a", "y">>
S_june == <<"j", "u", "n", "e">>
S_july == <<"j", "u", "l", "y">>
S_august == <<"a", "u", "g", "u", "s", "t">>
S_september == <<"s", "e", "p", "t", "e", "m", "b", "e", "r">>
S_october == <<"o", "c", "t", "o", "b", "e", "r">>
S_november == <<"n", "o", "v", "e", "m", "b", "e", "r">>
S_december == <<"d", "e", "c", "e", "m", "b", "e", "r">>
S_August == <<"A", "u", "g", "u", "s", "t">>
S_AUGUST_padded == <<" ", "A", "U", "G", "U", "S", "T", " ">>
S_Aug == <<"A", "u", "g">>
S_PRT == <<"P", "R", "T">>
S_P == <<"P">>
S_TwoSpaces == <<" ", " ">>
S_StatusDate == <<"2", "0", "2", "7", "-", "0", "8", "-", "1", "5">>
S_BadDate == <<"2", "0", "2", "7", "-", "8", "-", "1", "5">>
S_confirm == <<"c", "o", "n", "f", "i", "r", "m">>
S_YesConfirm == <<"Y", "e", "s", ",", " ", "C", "O", "N", "F", "I", "R", "M", " ", "i", "t">>
S_looksGood == <<"l", "o", "o", "k", "s", " ", "g", "o", "o", "d">>
S_confir == <<"c", "o", "n", "f", "i", "r">>
S_zz == <<"z", "z">>

\* ------------------------------------------------------------------------
\* JS values
\* ------------------------------------------------------------------------
Undefined == [k |-> "undefined", s |-> <<>>, n |-> 0]
Null == [k |-> "null", s |-> <<>>, n |-> 0]
Str(s) == [k |-> "string", s |-> s, n |-> 0]
\* the integer x
Num(x) == [k |-> "number", s |-> <<>>, n |-> 2 * x]
\* the number h/2 (a fraction when h is odd)
Halves(h) == [k |-> "number", s |-> <<>>, n |-> h]
Bool(b) == [k |-> "boolean", s |-> <<>>, n |-> IF b THEN 1 ELSE 0]
\* a Date, serialised by res.json() as an ISO string; n is year*10000 + month*100 + day
DateVal(code) == [k |-> "date", s |-> <<>>, n |-> code]
\* {} : the object with no keys
EmptyObject == [f \in {} |-> Undefined]

\* a JS value used as a condition
Truthy(v) ==
  CASE v.k \in {"undefined", "null"} -> FALSE
    [] v.k = "string" -> v.s # <<>>
    [] v.k \in {"number", "boolean"} -> v.n # 0
    [] OTHER -> TRUE

\* data[field]
Get(obj, key) == IF key \in DOMAIN obj THEN obj[key] ELSE Undefined

\* { ...a, ...b }
Spread(a, b) ==
  [key \in (DOMAIN a) \cup (DOMAIN b) |-> IF key \in DOMAIN b THEN b[key] ELSE a[key]]

\* const { id, ...rest } = obj
Without(obj, key) == [f \in (DOMAIN obj) \ {key} |-> obj[f]]

SetMin(S) == CHOOSE x \in S : \A y \in S : x <= y
SetMax(S) == CHOOSE x \in S : \A y \in S : x >= y

\* ------------------------------------------------------------------------
\* String functions
\* ------------------------------------------------------------------------
UpperLetters == <<"A", "B", "C", "D", "E", "F", "G", "H", "I", "J", "K", "L", "M",
                  "N", "O", "P", "Q", "R", "S", "T", "U", "V", "W", "X", "Y", "Z">>
LowerLetters == <<"a", "b", "c", "d", "e", "f", "g", "h", "i", "j", "k", "l", "m",
                  "n", "o", "p", "q", "r", "s", "t", "u", "v", "w", "x", "y", "z">>
Digits == {"0", "1", "2", "3", "4", "5", "6", "7", "8", "9"}
Whitespace == {" ", "\t", "\n"}

LowerChar(c) ==
  IF \E i \in 1..26 : UpperLetters[i] = c
  THEN LowerLetters[CHOOSE i \in 1..26 : UpperLetters[i] = c]
  ELSE c

\* String.prototype.toLowerCase
ToLowerCase(s) == [i \in 1..Len(s) |-> LowerChar(s[i])]

\* String.prototype.trim
Trim(s) ==
  LET kept == {i \in 1..Len(s) : s[i] \notin Whitespace}
  IN  IF kept = {} THEN <<>> ELSE SubSeq(s, SetMin(kept), SetMax(kept))

\* String.prototype.includes
Includes(s, needle) ==
  \E i \in 1..(Len(s) - Len(needle) + 1) : SubSeq(s, i, i + Len(needle) - 1) = needle

\* Array.prototype.includes on an array of strings
InList(list, s) == \E i \in 1..Len(list) : list[i] = s

\* ------------------------------------------------------------------------
\* Field catalog (chat route)
\* ------------------------------------------------------------------------
REQUIRED_FIELDS ==
  << "hotel", "lead_time", "arrival_date_year", "arrival_date_month",
     "arrival_date_week_number", "arrival_date_day_of_month",
     "stays_in_weekend_nights", "stays_in_week_nights", "adults", "children",
     "babies", "meal", "country", "market_segment", "is_repeated_guest",
     "reserved_room_type", "customer_type", "adr", "required_car_parking_spaces",
     "total_of_special_requests", "reservation_status", "reservation_status_date" >>

MONTH_NAMES ==
  << S_january, S_february, S_march, S_april, S_may, S_june, S_july, S_august,
     S_september, S_october, S_november, S_december >>

NUMBER_FIELDS ==
  { "lead_time", "arrival_date_year", "arrival_date_week_number",
    "arrival_date_day_of_month", "stays_in_weekend_nights", "stays_in_week_nights",
    "adults", "children", "babies", "adr", "required_car_parking_spaces",
    "total_of_special_requests" }

BOOLEAN_FIELDS == { "is_repeated_guest" }

\* ------------------------------------------------------------------------
\* Draft validator
\* ------------------------------------------------------------------------
\* the month rule without the lower-casing
MonthRejectedCaseSensitive(value) ==
  /\ value.k = "string"
  /\ ~InList(MONTH_NAMES, Trim(value.s))

\* the month rule of the filter callback: true when the field is to be listed
MonthRejected(value) ==
  /\ value.k = "string"
  /\ ~InList(MONTH_NAMES, ToLowerCase(Trim(value.s)))

BlankAsEmptyOnly(value) == value.k = "string" /\ value.s = <<>>

\* typeof value === "string" && value.trim() === ""
BlankString(value) == value.k = "string" /\ Trim(value.s) = <<>>

\* the callback of REQUIRED_FIELDS.filter: the chain of early returns
FieldMissing(data, field) ==
  LET value == Get(data, field)
  IN  IF value.k = "undefined" \/ value.k = "null" THEN TRUE
      ELSE IF BlankString(value) THEN TRUE
      ELSE IF field \in NUMBER_FIELDS /\ value.k # "number" THEN TRUE
      ELSE IF field \in BOOLEAN_FIELDS /\ value.k # "boolean" THEN TRUE
      ELSE IF field = "arrival_date_month" /\ MonthRejected(value) THEN TRUE
      ELSE FALSE

getMissingFields(draft) ==
  LET data == IF draft = Null THEN EmptyObject ELSE draft
  IN  SelectSeq(REQUIRED_FIELDS, LAMBDA field : FieldMissing(data, field))

\* ------------------------------------------------------------------------
\* Booking API: validation schema
\* ------------------------------------------------------------------------
HOTEL_ENUM == {S_CityHotel, S_ResortHotel}
MEAL_ENUM == {S_BB, S_HB, S_FB, S_SC, <<>>}
MARKET_SEGMENT_ENUM == {S_Corporate, S_Direct, S_Groups, S_OnlineTA}
CUSTOMER_TYPE_ENUM == {S_Transient, S_Contract, S_Group, S_Other}
RESERVED_ROOM_ENUM == {<<"A">>, <<"B">>, <<"C">>, <<"D">>, <<"E">>, <<"F">>, <<"G">>, <<"H">>}
RES_STATUS_ENUM == {S_Canceled, S_CheckedIn, S_NoShow}

\* z.enum(values)
ZEnum(v, values) == v.k = "string" /\ v.s \in values
\* z.number().int().min(lo)
ZIntMin(v, lo) == v.k = "number" /\ v.n % 2 = 0 /\ v.n >= 2 * lo
\* z.number().int().min(lo).max(hi)
ZIntRange(v, lo, hi) == ZIntMin(v, lo) /\ v.n <= 2 * hi
\* z.string().min(lo)
ZStringMin(v, lo) == v.k = "string" /\ Len(v.s) >= lo
\* /^\d{4}-\d{2}-\d{2}$/
MatchesIsoDate(s) ==
  /\ Len(s) = 10
  /\ \A i \in {1, 2, 3, 4, 6, 7, 9, 10} : s[i] \in Digits
  /\ s[5] = "-" /\ s[8] = "-"
\* z.string().nullable().optional()
ZOptionalString(v) == v.k \in {"string", "null", "undefined"}

\* the fields of bookingBaseSchema
SCHEMA_FIELDS ==
  { "hotel", "lead_time", "arrival_date_year", "arrival_date_month",
    "arrival_date_week_number", "arrival_date_day_of_month",
    "stays_in_weekend_nights", "stays_in_week_nights", "adults", "children",
    "babies", "meal", "country", "market_segment", "is_repeated_guest",
    "reserved_room_type", "agent", "company", "customer_type", "adr",
    "required_car_parking_spaces", "total_of_special_requests",
    "reservation_status", "reservation_status_date" }

\* bookingBaseSchema: the rule of one field, applied to the value v
bookingBaseSchema(field, v) ==
  CASE field = "hotel" -> ZEnum(v, HOTEL_ENUM)
    [] field = "lead_time" -> ZIntMin(v, 0)
    [] field = "arrival_date_year" -> ZIntMin(v, 2000)
    [] field = "arrival_date_month" -> ZStringMin(v, 1)
    [] field = "arrival_date_week_number" -> ZIntRange(v, 1, 53)
    [] field = "arrival_date_day_of_month" -> ZIntRange(v, 1, 31)
    [] field = "stays_in_weekend_nights" -> ZIntMin(v, 0)
    [] field = "stays_in_week_nights" -> ZIntMin(v, 0)
    [] field = "adults" -> ZIntMin(v, 0)
    [] field = "children" -> ZIntMin(v, 0)
    [] field = "babies" -> ZIntMin(v, 0)
    [] field = "meal" -> ZEnum(v, MEAL_ENUM)
    [] field = "country" -> ZStringMin(v, 2) /\ Len(v.s) <= 3
    [] field = "market_segment" -> ZEnum(v, MARKET_SEGMENT_ENUM)
    [] field = "is_repeated_guest" -> v.k = "boolean"
    [] field = "reserved_room_type" -> ZEnum(v, RESERVED_ROOM_ENUM)
    [] field = "agent" -> ZOptionalString(v)
    [] field = "company" -> ZOptionalString(v)
    [] field = "customer_type" -> ZEnum(v, CUSTOMER_TYPE_ENUM)
    [] field = "adr" -> v.k = "number"
    [] field = "required_car_parking_spaces" -> ZIntMin(v, 0)
    [] field = "total_of_special_requests" -> ZIntMin(v, 0)
    [] field = "reservation_status" -> ZEnum(v, RES_STATUS_ENUM)
    [] field = "reservation_status_date" -> v.k = "string" /\ MatchesIsoDate(v.s)

\* z.object strips the keys the schema does not name
StripUnknown(body) == [f \in (DOMAIN body) \cap SCHEMA_FIELDS |-> body[f]]

\* bookingCreateSchema.parse succeeds
bookingCreateSchema(body) == \A f \in SCHEMA_FIELDS : bookingBaseSchema(f, Get(body, f))

\* a patch schema that takes any record, as z.record(z.unknown()) does
bookingPatchSchemaAnyRecord(body) == TRUE

\* bookingPatchSchema.parse succeeds: bookingBaseSchema.partial()
bookingPatchSchema(body) ==
  \A f \in (DOMAIN body) \cap SCHEMA_FIELDS : bookingBaseSchema(f, body[f])

\* ------------------------------------------------------------------------
\* Booking API: arrival date
\* ------------------------------------------------------------------------
\* the lower-case property names every object literal inherits from Object.prototype
S_constructor == <<"c", "o", "n", "s", "t", "r", "u", "c", "t", "o", "r">>
S_proto == <<"_", "_", "p", "r", "o", "t", "o", "_", "_">>
InheritedKeys == {S_constructor, S_proto}

\* monthMap[normalized] on the object literal: the index of an own key, -1 for
\* undefined, -2 for an inherited property (a function or object, not a number)
monthMap(normalized) ==
  IF InList(MONTH_NAMES, normalized)
  THEN (CHOOSE i \in 1..12 : MONTH_NAMES[i] = normalized) - 1
  ELSE IF normalized \in InheritedKeys THEN -2
  ELSE -1

IsLeapYear(y) == (y % 4 = 0 /\ y % 100 # 0) \/ y % 400 = 0

DaysInMonth(y, monthIndex) ==
  CASE monthIndex = 1 -> IF IsLeapYear(y) THEN 29 ELSE 28
    [] monthIndex \in {3, 5, 8, 10} -> 30
    [] OTHER -> 31

\* new Date(Date.UTC(year, monthIndex, day)) for day in 1..31: a day past the
\* end of the month rolls into the next month
DateUTC(year, monthIndex, day) ==
  IF day <= DaysInMonth(year, monthIndex)
  THEN DateVal(year * 10000 + (monthIndex + 1) * 100 + day)
  ELSE DateVal(year * 10000 + (monthIndex + 2) * 100 + (day - DaysInMonth(year, monthIndex)))

\* new Date(NaN)
InvalidDate == [k |-> "date", s |-> <<>>, n |-> -1]

\* computeArrivalDate: [ok |-> FALSE] stands for the thrown "Invalid month name";
\* Date.UTC with a month that is not a number is NaN
computeArrivalDate(year, month, day) ==
  LET normalized == ToLowerCase(Trim(month.s))
      monthIndex == monthMap(normalized)
  IN  IF monthIndex = -1
      THEN [ok |-> FALSE, date |-> Undefined]
      ELSE IF monthIndex = -2
      THEN [ok |-> TRUE, date |-> InvalidDate]
      ELSE [ok |-> TRUE, date |-> DateUTC(year.n \div 2, monthIndex, day.n \div 2)]

\* ------------------------------------------------------------------------
\* Booking API: handlers over the booking table (rows, in creation order)
\* ------------------------------------------------------------------------
IdDigits == <<"1", "2", "3", "4", "5", "6", "7", "8", "9">>

\* the decimal digits in order of value
IdDigitsFromZero == <<"0">> \o IdDigits

\* Number(value) when value is not numeric
NotANumber == [k |-> "number", s |-> <<"N", "a", "N">>, n |-> 0]
\* the identifier the table assigns to its i-th row
BookingId(i) == <<"b", IdDigits[i]>>

\* value ?? null
OrNull(v) == IF v.k \in {"undefined", "null"} THEN Null ELSE v

\* sendError and the error middleware: the response of a failed request
ErrorResponse(status, code, message, rows) ==
  [status |-> status, code |-> code, message |-> message, data |-> Undefined, rows |-> rows]

OkResponse(status, data, rows) ==
  [status |-> status, code |-> "", message |-> "", data |-> data, rows |-> rows]

\* a lookup by id alone, without the deleted_at: null filter
findFirstAnyRow(rows, id) ==
  IF \E i \in 1..Len(rows) : rows[i]["id"] = Str(id)
  THEN CHOOSE i \in 1..Len(rows) : rows[i]["id"] = Str(id)
  ELSE 0

\* prisma.booking.findFirst({ where: { id, deleted_at: null } }): the row's index, or 0
findFirst(rows, id) ==
  IF \E i \in 1..Len(rows) : rows[i]["id"] = Str(id) /\ rows[i]["deleted_at"] = Null
  THEN CHOOSE i \in 1..Len(rows) : rows[i]["id"] = Str(id) /\ rows[i]["deleted_at"] = Null
  ELSE 0

\* app.post("/api/v1/bookings")
ApiCreateBooking(rows, body) ==
  IF ~bookingCreateSchema(body)
  THEN ErrorResponse(400, "VALIDATION_ERROR", "Invalid request payload", rows)
  ELSE
    LET payload == StripUnknown(body)
        arrival == computeArrivalDate(payload["arrival_date_year"],
                                      payload["arrival_date_month"],
                                      payload["arrival_date_day_of_month"])
        booking == Spread(payload,
                     [ arrival_date |-> arrival.date,
                       agent |-> OrNull(Get(payload, "agent")),
                       company |-> OrNull(Get(payload, "company")),
                       id |-> Str(BookingId(Len(rows) + 1)),
                       created_at |-> DateVal(Len(rows) + 1),
                       deleted_at |-> Null ])
    IN  IF ~arrival.ok
        THEN ErrorResponse(400, "INVALID_MONTH", "Invalid month name", rows)
        ELSE IF arrival.date = InvalidDate
        THEN ErrorResponse(500, "INTERNAL_ERROR", "Unexpected error", rows)
        ELSE OkResponse(201, booking, Append(rows, booking))

\* app.get("/api/v1/bookings/:id")
ApiGetBooking(rows, id) ==
  LET i == findFirst(rows, id)
  IN  IF i = 0
      THEN ErrorResponse(404, "NOT_FOUND", "Booking not found", rows)
      ELSE OkResponse(200, rows[i], rows)

\* a patch that recomputes the arrival date only when it names the year
PatchTouchesDateYearOnly(patch) == "arrival_date_year" \in DOMAIN patch

\* patch.arrival_date_year !== undefined || ..._month !== undefined || ..._day_of_month !== undefined
PatchTouchesDate(patch) ==
  {"arrival_date_year", "arrival_date_month", "arrival_date_day_of_month"}
    \cap DOMAIN patch # {}

\* an optional field that falls back to null, as create does
PatchedOptionalOrNull(patch, existing, field) ==
  IF field \in DOMAIN patch THEN patch[field] ELSE Null

\* patch.agent !== undefined ? patch.agent : existing.agent
PatchedOptional(patch, existing, field) ==
  IF field \in DOMAIN patch THEN patch[field] ELSE existing[field]

\* app.patch("/api/v1/bookings/:id")
ApiPatchBooking(rows, id, body) ==
  IF ~bookingPatchSchema(body)
  THEN ErrorResponse(400, "VALIDATION_ERROR", "Invalid request payload", rows)
  ELSE
    LET patch == StripUnknown(body)
        i == findFirst(rows, id)
    IN  IF i = 0
        THEN ErrorResponse(404, "NOT_FOUND", "Booking not found", rows)
        ELSE
          LET existing == rows[i]
              year == IF "arrival_date_year" \in DOMAIN patch
                      THEN patch["arrival_date_year"] ELSE existing["arrival_date_year"]
              month == IF "arrival_date_month" \in DOMAIN patch
                       THEN patch["arrival_date_month"] ELSE existing["arrival_date_month"]
              day == IF "arrival_date_day_of_month" \in DOMAIN patch
                     THEN patch["arrival_date_day_of_month"]
                     ELSE existing["arrival_date_day_of_month"]
              arrival == IF PatchTouchesDate(patch) THEN computeArrivalDate(year, month, day)
                         ELSE [ok |-> TRUE, date |-> existing["arrival_date"]]
              booking == Spread(existing, Spread(patch,
                           [ arrival_date |-> arrival.date,
                             agent |-> PatchedOptional(patch, existing, "agent"),
                             company |-> PatchedOptional(patch, existing, "company") ]))
          IN  IF ~arrival.ok
              THEN ErrorResponse(400, "INVALID_MONTH", "Invalid month name", rows)
              ELSE IF arrival.date = InvalidDate
              THEN ErrorResponse(500, "INTERNAL_ERROR", "Unexpected error", rows)
              ELSE OkResponse(200, booking, [rows EXCEPT ![i] = booking])

\* app.delete("/api/v1/bookings/:id"): deleted_at is set to the time of the request
ApiDeleteBooking(rows, id, time) ==
  LET i == findFirst(rows, id)
  IN  IF i = 0
      THEN ErrorResponse(404, "NOT_FOUND", "Booking not found", rows)
      ELSE LET booking == Spread(rows[i], [deleted_at |-> DateVal(time)])
           IN  OkResponse(200, booking, [rows EXCEPT ![i] = booking])

\* the decimal digits of a query parameter as a number
RECURSIVE DigitsToNat(_)
DigitsToNat(s) ==
  IF s = <<>> THEN 0
  ELSE 10 * DigitsToNat(SubSeq(s, 1, Len(s) - 1))
       + (CHOOSE d \in 0..9 : IdDigitsFromZero[d + 1] = s[Len(s)])

\* z.coerce.number().int(): Number(value) of a query string; NotANumber for NaN
CoerceInt(v) ==
  IF v.k = "string" /\ \A j \in 1..Len(v.s) : v.s[j] \in Digits
  THEN Num(DigitsToNat(v.s))
  ELSE IF v.k = "number" /\ v.n % 2 = 0 THEN v
  ELSE NotANumber

\* bookingQuerySchema.parse succeeds
bookingQuerySchema(query) ==
  /\ "page" \in DOMAIN query =>
       CoerceInt(query["page"]) # NotANumber /\ CoerceInt(query["page"]).n >= 2
  /\ "page_size" \in DOMAIN query =>
       /\ CoerceInt(query["page_size"]) # NotANumber
       /\ CoerceInt(query["page_size"]).n >= 2
       /\ CoerceInt(query["page_size"]).n <= 200
  /\ "hotel" \in DOMAIN query => ZEnum(query["hotel"], HOTEL_ENUM)
  /\ "year" \in DOMAIN query => CoerceInt(query["year"]) # NotANumber
  /\ "month" \in DOMAIN query => query["month"].k = "string"
  /\ "country" \in DOMAIN query => query["country"].k = "string"
  /\ "status" \in DOMAIN query => ZEnum(query["status"], RES_STATUS_ENUM)

\* the where clause of the list: live rows that equal every filter the query names
ListWhereAnyRow(row, query) ==
  /\ "hotel" \in DOMAIN query => row["hotel"] = query["hotel"]
  /\ "year" \in DOMAIN query => row["arrival_date_year"] = CoerceInt(query["year"])
  /\ "month" \in DOMAIN query => row["arrival_date_month"] = query["month"]
  /\ "country" \in DOMAIN query => row["country"] = query["country"]
  /\ "status" \in DOMAIN query => row["reservation_status"] = query["status"]

ListWhere(row, query) ==
  /\ row["deleted_at"] = Null
  /\ "hotel" \in DOMAIN query => row["hotel"] = query["hotel"]
  /\ "year" \in DOMAIN query => row["arrival_date_year"] = CoerceInt(query["year"])
  /\ "month" \in DOMAIN query => row["arrival_date_month"] = query["month"]
  /\ "country" \in DOMAIN query => row["country"] = query["country"]
  /\ "status" \in DOMAIN query => row["reservation_status"] = query["status"]

\* a sequence back to front
Reverse(seq) == [j \in 1..Len(seq) |-> seq[Len(seq) + 1 - j]]

\* app.get("/api/v1/bookings"): findMany (newest first, skip, take) and count
ApiListBookings(rows, query) ==
  IF ~bookingQuerySchema(query)
  THEN ErrorResponse(400, "VALIDATION_ERROR", "Invalid request payload", rows)
  ELSE
    LET page == IF "page" \in DOMAIN query THEN CoerceInt(query["page"]).n \div 2 ELSE 1
        page_size == IF "page_size" \in DOMAIN query
                     THEN CoerceInt(query["page_size"]).n \div 2 ELSE 20
        matching == SelectSeq(rows, LAMBDA row : ListWhere(row, query))
        ordered == Reverse(matching)
        skip == (page - 1) * page_size
        items == SubSeq(ordered, skip + 1,
                        IF skip + page_size < Len(ordered) THEN skip + page_size
                        ELSE Len(ordered))
    IN  [ status |-> 200, code |-> "", message |-> "", data |-> items,
          pagination |-> [page |-> page, page_size |-> page_size, total |-> Len(matching)],
          rows |-> rows ]

\* a guard that lets a request without the header through
apiKeyGuardHeaderOptional(key, header) ==
  IF ~Truthy(key) THEN TRUE ELSE header = Undefined \/ header = key

\* apiKeyGuard: TRUE when next() is called, FALSE when it answers 401
apiKeyGuard(key, header) ==
  IF ~Truthy(key) THEN TRUE ELSE header = key

\* the response of a request to /api/v1: 401 from the guard, else the handler's
Guarded(key, header, response, rows) ==
  IF apiKeyGuard(key, header) THEN response
  ELSE ErrorResponse(401, "UNAUTHORIZED", "Invalid API key", rows)

\* ------------------------------------------------------------------------
\* MCP client (packages/mcp/src/client.ts)
\* ------------------------------------------------------------------------
\* how a call to the store can go on the wire
Networks == {"up", "down"}

\* what a client call hands its caller: the value it returns, or the Error it throws
Returned(value, rows) == [ok |-> TRUE, value |-> value, error |-> "", rows |-> rows]
Thrown(message, rows) == [ok |-> FALSE, value |-> Undefined, error |-> message, rows |-> rows]

\* requestJson returning the whole { data } envelope instead of result.data
requestJsonEnvelope(net, response, rows) ==
  IF net = "down" THEN Thrown("fetch failed", rows)
  ELSE IF response.status \notin {200, 201} THEN Thrown(response.message, response.rows)
  ELSE Returned([data |-> response.data], response.rows)

\* requestJson: fetch rejects when the store is unreachable; a non-2xx response
\* throws an Error with the envelope's message; otherwise result.data is returned
requestJson(net, response, rows) ==
  IF net = "down" THEN Thrown("fetch failed", rows)
  ELSE IF response.status \notin {200, 201} THEN Thrown(response.message, response.rows)
  ELSE Returned(response.data, response.rows)

\* JSON.stringify(undefined) sends no body, which express.json() reads as {}
RequestBody(obj) == IF obj = Undefined THEN EmptyObject ELSE obj

\* the id as it is spliced into the URL
S_undefined == <<"u", "n", "d", "e", "f", "i", "n", "e", "d">>
PathId(id) == IF id.k = "string" THEN id.s ELSE S_undefined

createBooking(rows, payload, net) ==
  requestJson(net, ApiCreateBooking(rows, RequestBody(payload)), rows)

updateBooking(rows, id, patch, net) ==
  requestJson(net, ApiPatchBooking(rows, PathId(id), RequestBody(patch)), rows)

getBooking(rows, id, net) ==
  requestJson(net, ApiGetBooking(rows, PathId(id)), rows)

\* ------------------------------------------------------------------------
\* Inputs of a turn: drafts, message histories, model outputs
\* ------------------------------------------------------------------------
\* a draft with every required field filled in and valid for the store
CompleteDraft ==
  [ hotel |-> Str(S_ResortHotel), lead_time |-> Num(10), arrival_date_year |-> Num(2027),
    arrival_date_month |-> Str(S_August), arrival_date_week_number |-> Num(33),
    arrival_date_day_of_month |-> Num(15), stays_in_weekend_nights |-> Num(2),
    stays_in_week_nights |-> Num(3), adults |-> Num(2), children |-> Num(1),
    babies |-> Num(0), meal |-> Str(S_BB), country |-> Str(S_PRT),
    market_segment |-> Str(S_Direct), is_repeated_guest |-> Bool(FALSE),
    reserved_room_type |-> Str(<<"A">>), customer_type |-> Str(S_Transient),
    adr |-> Halves(241), required_car_parking_spaces |-> Num(0),
    total_of_special_requests |-> Num(1), reservation_status |-> Str(S_CheckedIn),
    reservation_status_date |-> Str(S_StatusDate) ]

\* obj with key set to value
With(obj, key, value) == Spread(obj, [f \in {key} |-> value])

\* the drafts a caller supplies in body.booking (null when it sends none)
InputDrafts ==
  { Null,
    CompleteDraft,
    With(CompleteDraft, "id", Str(BookingId(1))),
    With(CompleteDraft, "id", Str(S_zz)),
    With(CompleteDraft, "arrival_date_month", Str(S_Aug)),
    With(CompleteDraft, "hotel", Num(5)) }

UserMsg(content) == [role |-> "user", content |-> content]
AssistantMsg(content) == [role |-> "assistant", content |-> content]

\* the message histories a caller supplies in body.messages
InputHistories ==
  { <<>>,
    <<UserMsg(S_confirm)>>,
    <<UserMsg(S_YesConfirm)>>,
    <<UserMsg(S_looksGood)>>,
    <<UserMsg(S_confirm), AssistantMsg(S_confir), UserMsg(S_looksGood)>> }

\* a tool call of the model: its function name and its parsed arguments;
\* malformed marks arguments that JSON.parse rejects
ToolCall(name, args) == [name |-> name, args |-> args, malformed |-> FALSE]
MalformedToolCall(name) == [name |-> name, args |-> EmptyObject, malformed |-> TRUE]

TC_Create == ToolCall("create_booking", [payload |-> CompleteDraft])
TC_CreateNoMeal ==
  ToolCall("create_booking", [payload |-> With(CompleteDraft, "meal", Str(<<>>))])
TC_Update ==
  ToolCall("update_booking", [id |-> Str(BookingId(1)), patch |-> [adults |-> Num(3)]])
TC_Get == ToolCall("get_booking", [id |-> Str(BookingId(1))])
TC_Malformed == MalformedToolCall("create_booking")

\* the non-empty tool_calls lists of a completion: every single call, and lists
\* of two where a read or a write precedes another call
ToolCallLists ==
  { <<TC_Create>>, <<TC_CreateNoMeal>>, <<TC_Update>>, <<TC_Get>>, <<TC_Malformed>>,
    <<TC_Get, TC_Create>>, <<TC_Create, TC_Update>> }

\* choice.message.content of a completion: a JSON object, or text that is not JSON
JsonContent(message, draft, missing_fields) ==
  [json |-> TRUE, text |-> "", message |-> message, draft |-> draft,
   missing_fields |-> missing_fields]
TextContent(text) ==
  [json |-> FALSE, text |-> text, message |-> "", draft |-> Undefined,
   missing_fields |-> <<>>]

Contents ==
  { JsonContent("Shall I book it?", Undefined, <<>>),
    JsonContent("Noted.", [hotel |-> Str(S_CityHotel)], <<>>),
    JsonContent("Noted.", [adults |-> Num(4)], <<"adults">>),
    TextContent("Hello") }

\* extractJson
extractJson(content) ==
  IF content.json
  THEN [message |-> content.message, draft |-> content.draft,
        missing_fields |-> content.missing_fields]
  ELSE [message |-> content.text, draft |-> Undefined, missing_fields |-> <<>>]

\* the store before any request has reached it
NoRequest == [method |-> "", id |-> <<>>, body |-> Undefined, header |-> Undefined]
NoResponse ==
  [status |-> 0, code |-> "", message |-> "", data |-> Undefined, pagination |-> Undefined]

\* the MCP server before any tools/call request has reached it
NoCall == [name |-> "", arguments |-> Undefined]
NoResult == [isError |-> FALSE, content |-> <<>>, threw |-> FALSE]

\* parsed before any completion has answered
ParsedNone == [message |-> "", draft |-> Undefined, missing_fields |-> <<>>]

\* ------------------------------------------------------------------------
\* Chat route: replies
\* ------------------------------------------------------------------------
FIELD_LABELS ==
  [ hotel |-> "hotel (City Hotel or Resort Hotel)",
    lead_time |-> "lead time (days before arrival)",
    arrival_date_year |-> "arrival year (YYYY)",
    arrival_date_month |-> "arrival month (full name, e.g. January)",
    arrival_date_week_number |-> "arrival week number (1-53)",
    arrival_date_day_of_month |-> "arrival day of month (1-31)",
    stays_in_weekend_nights |-> "weekend nights",
    stays_in_week_nights |-> "week nights",
    adults |-> "number of adults",
    children |-> "number of children",
    babies |-> "number of babies",
    meal |-> "meal plan (BB, HB, FB, SC, or empty)",
    country |-> "country code (2-3 letters)",
    market_segment |-> "market segment (Corporate, Direct, Groups, Online TA)",
    is_repeated_guest |-> "repeat guest (true/false)",
    reserved_room_type |-> "room type (A-H)",
    customer_type |-> "customer type (Transient, Contract, Group, Other)",
    adr |-> "average daily rate (ADR)",
    required_car_parking_spaces |-> "required parking spaces",
    total_of_special_requests |-> "total special requests",
    reservation_status |-> "reservation status (Checked-In, Canceled, No-Show)",
    reservation_status_date |-> "reservation status date (YYYY-MM-DD)" ]

\* a reply text: its fixed or model-authored text, and for the missing-field
\* prompt the hotel named in its prefix and its "- label" lines
Reply(text) == [text |-> text, hotel |-> Undefined, lines |-> <<>>]

MSG_NONE == Reply("")
MSG_CONFIRMED == Reply("Your booking has been confirmed.")
MSG_FAILED == Reply("I couldn't finalize the booking. Please try again.")
MSG_SAY_CONFIRM == Reply("I have the booking summary ready. Please say confirm to proceed.")
MSG_FALLBACK == Reply("Let's continue the booking details.")

\* booking?.hotel
HotelOf(booking) == IF booking = Null THEN Undefined ELSE Get(booking, "hotel")

buildMissingMessage(missingFields, booking) ==
  [ text |-> IF Truthy(HotelOf(booking))
             THEN "I can start a ${booking.hotel} booking. To complete it, please provide:"
             ELSE "I can start your booking. To complete it, please provide:",
    hotel |-> IF Truthy(HotelOf(booking)) THEN HotelOf(booking) ELSE Undefined,
    lines |-> [j \in 1..Len(missingFields) |->
                 IF missingFields[j] \in DOMAIN FIELD_LABELS
                 THEN FIELD_LABELS[missingFields[j]] ELSE missingFields[j]] ]

\* ------------------------------------------------------------------------
\* Chat route: the state of the store and of the turn in progress
\* ------------------------------------------------------------------------
VARIABLES
  rows,          \* the booking table of the store
  turn,          \* turns handled so far
  lastBooking,   \* the draft the last reply handed back to the caller
  pc,            \* where the turn stands: idle, direct, completion, tools, done, threw
  handler,       \* which POST handles the turn
  messages,      \* body.messages
  bodyBooking,   \* body.booking ?? null
  confirmed,     \* the confirmation flag computed from the latest message
  missingBefore, \* the missing fields of the incoming draft
  booking,       \* the working draft
  toolTrace,     \* the action trace of the turn
  i,             \* the loop counter
  pending,       \* the tool calls of the current completion not yet handled
  reply,         \* the message of the response
  storeCalls,    \* every call made to the store in this turn, in order
  completions,   \* completion calls made in this turn
  gated,         \* the turn ended by refusing a mutating tool call
  parsed,        \* what extractJson read from the content of the last completion
  now,           \* the clock of the store
  req,           \* the last request the store answered
  res,           \* the response it sent
  apiKey,        \* the shared secret the store is configured with, if any
  callRequest,   \* params of the last tools/call request the MCP server handled
  callResult     \* what its handler gave the transport

vars == << rows, turn, lastBooking, pc, handler, messages, bodyBooking, confirmed,
           missingBefore, booking, toolTrace, i, pending, reply, storeCalls, completions, gated, parsed, now, req, res, apiKey, callRequest, callResult >>

\* the two POST handlers of the repository: the one with the direct confirmation
\* path and draft validator, and the one that only runs the completion loop
Handlers == {"part_002", "route_ts"}

\* result && typeof result === "object"
IsObject(v) == "k" \notin DOMAIN v

\* body.messages.at(-1)?.content ?? ""
latestUser(msgs) == IF Len(msgs) = 0 THEN <<>> ELSE msgs[Len(msgs)].content

\* latestUser.toLowerCase().includes("confirm")
Confirmed(msgs) == Includes(ToLowerCase(latestUser(msgs)), S_confirm)

DirectPathIgnoresMissing(h, isConfirmed, draft, missing) ==
  h = "part_002" /\ isConfirmed /\ draft # Null

\* confirmed && booking && missingBefore.length === 0
DirectPath(h, isConfirmed, draft, missing) ==
  /\ h = "part_002"
  /\ isConfirmed
  /\ draft # Null
  /\ Len(missing) = 0

NeverStringId(draft) == FALSE

\* typeof booking.id === "string"
HasStringId(draft) == Get(draft, "id").k = "string"

TurnReset ==
  /\ handler' = "part_002"
  /\ messages' = <<>>
  /\ bodyBooking' = Null
  /\ confirmed' = FALSE
  /\ missingBefore' = <<>>
  /\ booking' = Null
  /\ toolTrace' = <<>>
  /\ i' = 0
  /\ pending' = <<>>
  /\ reply' = MSG_NONE
  /\ storeCalls' = <<>>
  /\ completions' = 0
  /\ gated' = FALSE
  /\ parsed' = ParsedNone

Init ==
  /\ rows = <<>>
  /\ turn = 0
  /\ lastBooking = Null
  /\ pc = "idle"
  /\ handler = "part_002"
  /\ messages = <<>>
  /\ bodyBooking = Null
  /\ confirmed = FALSE
  /\ missingBefore = <<>>
  /\ booking = Null
  /\ toolTrace = <<>>
  /\ i = 0
  /\ pending = <<>>
  /\ reply = MSG_NONE
  /\ storeCalls = <<>>
  /\ completions = 0
  /\ gated = FALSE
  /\ parsed = ParsedNone
  /\ now = 0
  /\ req = NoRequest
  /\ res = NoResponse
  /\ apiKey = Undefined
  /\ callRequest = NoCall
  /\ callResult = NoResult

\* ------------------------------------------------------------------------
\* Chat route: POST, one action per stretch between two awaits
\* ------------------------------------------------------------------------
\* toolTrace entries: with a result (the call returned) or an error (it threw)
TraceErrorUnknown(name, payload, message) ==
  [name |-> name, payload |-> payload, failed |-> TRUE, result |-> Undefined,
   error |-> "Unknown error"]

\* an entry pushed without the value the call returned
TraceResultDropped(name, payload, result) ==
  [name |-> name, payload |-> payload, failed |-> FALSE, result |-> Undefined, error |-> ""]

TraceResult(name, payload, result) ==
  [name |-> name, payload |-> payload, failed |-> FALSE, result |-> result, error |-> ""]
TraceError(name, payload, message) ==
  [name |-> name, payload |-> payload, failed |-> TRUE, result |-> Undefined, error |-> message]

\* a call made to the store through the client
StoreCall(op, id, body, outcome) ==
  [op |-> op, id |-> id, body |-> body, ok |-> outcome.ok, value |-> outcome.value,
   error |-> outcome.error]

\* the caller sends the draft it holds (body.booking) with its messages; the
\* request is read and the turn set up, up to the first await
Start(h, msgs, draft) ==
  /\ pc = "idle"
  /\ turn < MaxTurns
  /\ handler' = h
  /\ messages' = msgs
  /\ bodyBooking' = draft
  /\ confirmed' = Confirmed(msgs)
  /\ missingBefore' = IF h = "part_002" THEN getMissingFields(draft) ELSE <<>>
  /\ booking' = draft
  /\ toolTrace' = <<>>
  /\ i' = 0
  /\ pc' = IF DirectPath(h, Confirmed(msgs), draft, getMissingFields(draft))
           THEN "direct" ELSE "completion"
  /\ lastBooking' = draft
  /\ UNCHANGED << rows, turn, pending, reply, storeCalls, completions, gated, parsed, now, req, res, apiKey, callRequest, callResult >>

BookingKept(draft, outcome) == draft

\* if (result && typeof result === "object") booking = result; a call that
\* threw leaves the draft as it was
BookingAfter(draft, outcome) ==
  IF outcome.ok /\ IsObject(outcome.value) THEN outcome.value ELSE draft

\* the direct confirmation path: one mutating call, its try and its catch
DirectMutation(net) ==
  /\ pc = "direct"
  /\ LET id == Get(booking, "id")
         patch == Without(booking, "id")
         outcome == IF HasStringId(booking)
                    THEN updateBooking(rows, id, patch, net)
                    ELSE createBooking(rows, booking, net)
         name == IF HasStringId(booking) THEN "update_booking" ELSE "create_booking"
         call == IF HasStringId(booking)
                 THEN StoreCall("updateBooking", id, patch, outcome)
                 ELSE StoreCall("createBooking", Undefined, booking, outcome)
         payload == IF HasStringId(booking)
                    THEN [id |-> id, patch |-> patch]
                    ELSE [payload |-> booking]
     IN  /\ Len(outcome.rows) <= MaxBookings
         /\ rows' = outcome.rows
         /\ storeCalls' = Append(storeCalls, call)
         /\ IF outcome.ok
            THEN /\ toolTrace' = Append(toolTrace, TraceResult(name, payload, outcome.value))
                 /\ reply' = MSG_CONFIRMED
            ELSE /\ toolTrace' = Append(toolTrace, TraceError(name, booking, outcome.error))
                 /\ reply' = MSG_FAILED
         /\ booking' = BookingAfter(booking, outcome)
  /\ pc' = "done"
  /\ UNCHANGED << turn, lastBooking, handler, messages, bodyBooking, confirmed,
                  missingBefore, i,
                  pending, completions, gated, parsed, now, req, res, apiKey, callRequest, callResult >>

\* openai.chat.completions.create rejects: nothing in POST catches it
CompletionThrows ==
  /\ pc = "completion"
  /\ completions' = completions + 1
  /\ pc' = "threw"
  /\ UNCHANGED << rows, turn, lastBooking, handler, messages, bodyBooking, confirmed,
                  missingBefore, booking, toolTrace, i, pending, reply, storeCalls, gated, parsed, now, req, res, apiKey, callRequest, callResult >>

\* the completion answers with a non-empty tool_calls list
CompletionToolCalls(calls) ==
  /\ pc = "completion"
  /\ completions' = completions + 1
  /\ pending' = calls
  /\ pc' = "tools"
  /\ UNCHANGED << rows, turn, lastBooking, handler, messages, bodyBooking, confirmed,
                  missingBefore, booking, toolTrace, i, reply, storeCalls, gated, parsed, now, req, res, apiKey, callRequest, callResult >>

\* a merge that starts a draft from {} and drops the delta that started it
MergeDraftNullFirst(draft, delta) ==
  IF delta # Undefined /\ IsObject(delta)
  THEN IF draft = Null THEN EmptyObject ELSE Spread(draft, delta)
  ELSE draft

\* a merge with the spreads in the other order: the old value of a field wins
MergeDraftOldWins(draft, delta) ==
  IF delta # Undefined /\ IsObject(delta)
  THEN Spread(delta, IF draft = Null THEN EmptyObject ELSE draft)
  ELSE draft

\* { ...(booking ?? {}), ...parsed.draft } when parsed.draft is an object
MergeDraft(draft, delta) ==
  IF delta # Undefined /\ IsObject(delta)
  THEN Spread(IF draft = Null THEN EmptyObject ELSE draft, delta)
  ELSE draft

\* the message of an informational reply
InformationalReply(h, extracted, merged) ==
  LET missingFields == IF Len(extracted.missing_fields) > 0
                       THEN extracted.missing_fields
                       ELSE getMissingFields(merged)
  IN  IF h = "part_002" /\ Len(missingFields) > 0
      THEN buildMissingMessage(missingFields, merged)
      ELSE Reply(extracted.message)

\* the completion answers with content: the informational return
CompletionContent(content) ==
  /\ pc = "completion"
  /\ completions' = completions + 1
  /\ LET extracted == extractJson(content)
         merged == MergeDraft(booking, extracted.draft)
     IN  /\ parsed' = extracted
         /\ booking' = merged
         /\ reply' = InformationalReply(handler, extracted, merged)
  /\ pc' = "done"
  /\ UNCHANGED << rows, turn, lastBooking, handler, messages, bodyBooking, confirmed,
                  missingBefore, toolTrace, i, pending, storeCalls, gated, now, req, res, apiKey, callRequest, callResult >>

\* the next tool call's arguments do not parse: JSON.parse throws out of POST
ToolCallMalformed ==
  /\ pc = "tools"
  /\ pending # <<>>
  /\ Head(pending).malformed
  /\ pc' = "threw"
  /\ UNCHANGED << rows, turn, lastBooking, handler, messages, bodyBooking, confirmed,
                  missingBefore, booking, toolTrace, i, pending, reply, storeCalls, completions, gated, parsed, now, req, res, apiKey, callRequest, callResult >>

GateOff(isConfirmed, name) == FALSE

\* !confirmed && ["create_booking", "update_booking"].includes(name)
Gate(isConfirmed, name) ==
  ~isConfirmed /\ name \in {"create_booking", "update_booking"}

\* the confirmation gate refuses the next tool call and ends the turn
ToolCallRefused ==
  /\ pc = "tools"
  /\ pending # <<>>
  /\ ~Head(pending).malformed
  /\ Gate(confirmed, Head(pending).name)
  /\ reply' = MSG_SAY_CONFIRM
  /\ gated' = TRUE
  /\ pc' = "done"
  /\ UNCHANGED << rows, turn, lastBooking, handler, messages, bodyBooking, confirmed,
                  missingBefore, booking, toolTrace, i, pending, storeCalls, completions,
                  parsed, now, req, res, apiKey, callRequest, callResult >>

\* the next tool call is sent to the store; after the last one of the list the
\* loop continues, and after the second round the fallback reply is returned
ToolCallRun(net) ==
  /\ pc = "tools"
  /\ pending # <<>>
  /\ ~Head(pending).malformed
  /\ ~Gate(confirmed, Head(pending).name)
  /\ LET toolCall == Head(pending)
         args == toolCall.args
         outcome ==
           CASE toolCall.name = "create_booking" ->
                  createBooking(rows, Get(args, "payload"), net)
             [] toolCall.name = "update_booking" ->
                  updateBooking(rows, Get(args, "id"), Get(args, "patch"), net)
             [] toolCall.name = "get_booking" ->
                  getBooking(rows, Get(args, "id"), net)
         call ==
           CASE toolCall.name = "create_booking" ->
                  StoreCall("createBooking", Undefined, Get(args, "payload"), outcome)
             [] toolCall.name = "update_booking" ->
                  StoreCall("updateBooking", Get(args, "id"), Get(args, "patch"), outcome)
             [] toolCall.name = "get_booking" ->
                  StoreCall("getBooking", Get(args, "id"), Undefined, outcome)
     IN  /\ Len(outcome.rows) <= MaxBookings
         /\ rows' = outcome.rows
         /\ storeCalls' = Append(storeCalls, call)
         /\ IF outcome.ok
            THEN /\ toolTrace' = Append(toolTrace,
                                        TraceResult(toolCall.name, args, outcome.value))
            ELSE /\ toolTrace' = Append(toolTrace,
                                        TraceError(toolCall.name, args, outcome.error))
         /\ booking' = BookingAfter(booking, outcome)
  /\ pending' = Tail(pending)
  /\ IF Tail(pending) # <<>>
     THEN /\ i' = i
          /\ pc' = "tools"
          /\ reply' = reply
     ELSE /\ i' = i + 1
          /\ pc' = IF i + 1 < 2 THEN "completion" ELSE "done"
          /\ reply' = IF i + 1 < 2 THEN reply ELSE MSG_FALLBACK
  /\ UNCHANGED << turn, lastBooking, handler, messages, bodyBooking, confirmed,
                  missingBefore, completions, gated, parsed, now, req, res, apiKey, callRequest, callResult >>

\* the response (or the escaped exception) reaches the caller, which keeps the
\* returned draft when it is not null; the next turn may begin
Respond ==
  /\ pc \in {"done", "threw"}
  /\ turn' = turn + 1
  /\ lastBooking' = IF pc = "done" /\ booking # Null THEN booking ELSE lastBooking
  /\ pc' = "idle"
  /\ TurnReset
  /\ UNCHANGED << rows, now, req, res, apiKey, callRequest, callResult >>

Next ==
  \/ \E h \in Handlers, msgs \in InputHistories, draft \in InputDrafts \cup {lastBooking} :
       Start(h, msgs, draft)
  \/ \E net \in Networks : DirectMutation(net)
  \/ CompletionThrows
  \/ \E calls \in ToolCallLists : CompletionToolCalls(calls)
  \/ \E content \in Contents : CompletionContent(content)
  \/ ToolCallMalformed
  \/ ToolCallRefused
  \/ \E net \in Networks : ToolCallRun(net)
  \/ Respond

Spec == Init /\ [][Next]_vars

\* ------------------------------------------------------------------------
\* Properties of a turn
\* ------------------------------------------------------------------------
\* the store calls of the turn that create or update
IsMutating(call) == call.op \in {"createBooking", "updateBooking"}
MutatingCalls == SelectSeq(storeCalls, IsMutating)

\* "confirm" occurs in s, in any mix of upper and lower case
ConfirmUpper == <<"C", "O", "N", "F", "I", "R", "M">>
ContainsConfirmToken(s) ==
  \E start \in 1..Len(s) :
    /\ start + 6 <= Len(s)
    /\ \A j \in 1..7 : s[start + j - 1] \in {S_confirm[j], ConfirmUpper[j]}

\* the latest message of the turn carries the confirmation token
LatestConfirms ==
  /\ Len(messages) > 0
  /\ ContainsConfirmToken(messages[Len(messages)].content)

\* the draft the caller supplied has no missing or invalid required field
IncomingComplete == getMissingFields(bodyBooking) = <<>>

InTurn == pc # "idle"

\* C1: a create or update call reaches the store only if the incoming draft has
\* no missing field and the latest message carries the confirmation token
C1_MutationOnlyWhenAuthorized ==
  InTurn /\ MutatingCalls # <<>> => LatestConfirms /\ IncomingComplete

\* C2: in a turn whose latest message does not contain "confirm", no create and
\* no update call is made to the store; a proposed create_booking or
\* update_booking tool call ends the turn with the store untouched
C2_NoWriteWithoutConfirm ==
  /\ [](InTurn /\ ~LatestConfirms => MutatingCalls = <<>>)
  /\ [][ ( /\ pc = "tools" /\ ~LatestConfirms
           /\ pending # <<>>
           /\ Head(pending).name \in {"create_booking", "update_booking"} )
         => ( /\ pc' \in {"done", "threw"}
              /\ rows' = rows
              /\ storeCalls' = storeCalls ) ]_vars

\* C2 witness: the gate refused a mutating tool call in a turn whose history
\* holds an earlier "confirm" but whose latest message does not
C2_Witness ==
  /\ gated /\ pc = "done"
  /\ ~LatestConfirms
  /\ \E j \in 1..Len(messages) : ContainsConfirmToken(messages[j].content)

\* the turn of C3 and C4: the validator route, a complete draft, a confirming message
ConfirmedCompleteTurn ==
  InTurn /\ handler = "part_002" /\ LatestConfirms /\ IncomingComplete

\* the one store call C3 expects for the incoming draft
ExpectedMutation(call) ==
  IF "id" \in DOMAIN bodyBooking /\ bodyBooking["id"].k = "string"
  THEN /\ call.op = "updateBooking"
       /\ call.id = bodyBooking["id"]
       /\ call.body = [f \in (DOMAIN bodyBooking) \ {"id"} |-> bodyBooking[f]]
  ELSE /\ call.op = "createBooking"
       /\ call.body = bodyBooking

\* C3: with a complete draft and a confirming message, exactly one mutating
\* call is attempted and no completion call is made: an update of the draft's
\* identifier with every other field as the patch, else a create of the full
\* draft; on success the returned draft carries the identifier of the stored row
C3_ExactlyOneMutation ==
  ConfirmedCompleteTurn =>
    /\ pc \in {"direct", "done"}
    /\ completions = 0
    /\ pc = "direct" => storeCalls = <<>>
    /\ pc = "done" =>
         /\ Len(storeCalls) = 1
         /\ ExpectedMutation(storeCalls[1])
         /\ storeCalls[1].ok =>
              /\ "id" \in DOMAIN booking
              /\ \E r \in 1..Len(rows) : rows[r] = booking
              /\ storeCalls[1].op = "createBooking" =>
                   booking["id"] = Str(BookingId(Len(rows)))
              /\ storeCalls[1].op = "updateBooking" => booking["id"] = bodyBooking["id"]

\* C3 witness: a confirmed update of a stored booking succeeded
C3_Witness ==
  /\ ConfirmedCompleteTurn /\ pc = "done"
  /\ storeCalls[1].op = "updateBooking" /\ storeCalls[1].ok

\* C4: when the store call of a confirmed mutation fails, the draft is returned
\* unchanged, the trace holds exactly one entry carrying the error message, the
\* reply is the generic failure message and the store is not called again
C4_FailedMutation ==
  /\ ConfirmedCompleteTurn => pc # "threw"
  /\ ( /\ ConfirmedCompleteTurn /\ pc = "done"
       /\ \E j \in 1..Len(storeCalls) : ~storeCalls[j].ok )
     => /\ booking = bodyBooking
        /\ Len(storeCalls) = 1
        /\ Len(toolTrace) = 1
        /\ toolTrace[1].failed
        /\ toolTrace[1].error = storeCalls[1].error
        /\ toolTrace[1].error \in {"Booking not found", "Invalid request payload",
                                   "Invalid month name", "fetch failed"}
        /\ reply = MSG_FAILED

\* C4 witness: a confirmed update answered NOT_FOUND
C4_Witness ==
  /\ ConfirmedCompleteTurn /\ pc = "done"
  /\ Len(toolTrace) = 1 /\ toolTrace[1].error = "Booking not found"

\* C5: no exception escapes POST
C5_NoExceptionEscapes == pc # "threw"

\* the draft the turn holds after its tool calls so far: the result of the last
\* call that returned a booking, else the draft the caller supplied
RECURSIVE LastResult(_, _)
LastResult(trace, fallback) ==
  IF trace = <<>> THEN fallback
  ELSE LET last == trace[Len(trace)]
       IN  IF ~last.failed /\ IsObject(last.result) THEN last.result
           ELSE LastResult(SubSeq(trace, 1, Len(trace) - 1), fallback)

\* C6 as stated: a refused mutating tool call returns the caller's draft
C6_RefusalReturnsCallerDraft == gated => booking = bodyBooking

\* C6 amended: a refused mutating tool call returns the working draft as it
\* stood before the refusal: the caller's draft, or the booking returned by the
\* last successful tool call of the turn
C6_RefusalKeepsWorkingDraft ==
  gated => /\ pc = "done"
           /\ reply = MSG_SAY_CONFIRM
           /\ booking = LastResult(toolTrace, bodyBooking)

\* C6 witness: a get_booking succeeded before the refused call
C6_Witness ==
  /\ gated /\ toolTrace # <<>>
  /\ ~toolTrace[1].failed /\ toolTrace[1].name = "get_booking"

\* C7: a complete draft and no "confirm": no mutating call, and the reply asks
\* the user to say "confirm"
C7_AwaitingConfirmation ==
  ( /\ handler = "part_002" /\ pc = "done"
    /\ IncomingComplete /\ ~LatestConfirms )
  => /\ MutatingCalls = <<>>
     /\ reply = MSG_SAY_CONFIRM

\* the direct mutation branch was taken in this turn
TookDirectBranch == pc = "direct" \/ reply \in {MSG_CONFIRMED, MSG_FAILED}

\* C9: the direct mutation branch is taken iff the latest message carries the
\* confirmation token and the missing-field list of the incoming draft is empty
C9_DirectBranchIff ==
  InTurn /\ handler = "part_002" =>
    /\ TookDirectBranch <=> (LatestConfirms /\ Len(missingBefore) = 0)
    /\ missingBefore = getMissingFields(bodyBooking)
    /\ bodyBooking = Null => Len(missingBefore) = Len(REQUIRED_FIELDS)

\* C9 witness: a confirming message with a null draft does not take the branch
C9_Witness ==
  /\ InTurn /\ handler = "part_002" /\ LatestConfirms
  /\ bodyBooking = Null /\ ~TookDirectBranch /\ completions > 0

\* C10: every draft returned by a successful create is complete for the validator
C10_CreatedDraftIsComplete ==
  \A j \in 1..Len(toolTrace) :
    (toolTrace[j].name = "create_booking" /\ ~toolTrace[j].failed)
      => getMissingFields(toolTrace[j].result) = <<>>

\* ------------------------------------------------------------------------
\* The draft validator on its own: drafts built by editing single fields
\* ------------------------------------------------------------------------
\* field edits applied to a starting draft
MaxEdits == 1

\* a value of kind object ({} or an array)
ObjectValue == [k |-> "object", s |-> <<>>, n |-> 0]

\* the values an edit may give a field: every kind, blank and padded strings,
\* canonical and non-canonical month names, a property name every object inherits
SampleValues ==
  { Null, Str(<<>>), Str(S_TwoSpaces), Str(S_August), Str(S_AUGUST_padded), Str(S_Aug),
    Str(S_constructor), Str(<<"5">>), Num(5), Halves(3), Bool(TRUE), ObjectValue }

InitValidator ==
  /\ booking \in {Null, EmptyObject, CompleteDraft}
  /\ rows = <<>>
  /\ turn = 0
  /\ lastBooking = Null
  /\ pc = "idle"
  /\ handler = "part_002"
  /\ messages = <<>>
  /\ bodyBooking = Null
  /\ confirmed = FALSE
  /\ missingBefore = <<>>
  /\ toolTrace = <<>>
  /\ i = 0
  /\ pending = <<>>
  /\ reply = MSG_NONE
  /\ storeCalls = <<>>
  /\ completions = 0
  /\ gated = FALSE
  /\ parsed = ParsedNone
  /\ now = 0
  /\ req = NoRequest
  /\ res = NoResponse
  /\ apiKey = Undefined
  /\ callRequest = NoCall
  /\ callResult = NoResult

\* the validator runs on the draft
Validate ==
  /\ pc = "idle"
  /\ missingBefore' = getMissingFields(booking)
  /\ pc' = "done"
  /\ UNCHANGED << rows, turn, lastBooking, handler, messages, bodyBooking, confirmed,
                  booking, toolTrace, i, pending, reply, storeCalls, completions, gated, parsed, now, req, res, apiKey, callRequest, callResult >>

\* one field of the draft is given another value
EditField(field, value) ==
  /\ pc = "done"
  /\ booking # Null
  /\ turn < MaxEdits
  /\ booking' = With(booking, field, value)
  /\ turn' = turn + 1
  /\ pc' = "idle"
  /\ UNCHANGED << rows, lastBooking, handler, messages, bodyBooking, confirmed,
                  missingBefore, toolTrace, i, pending, reply, storeCalls, completions,
                  gated, parsed, now, req, res, apiKey, callRequest, callResult >>

\* one field of the draft is taken out
RemoveField(field) ==
  /\ pc = "done"
  /\ booking # Null
  /\ field \in DOMAIN booking
  /\ turn < MaxEdits
  /\ booking' = Without(booking, field)
  /\ turn' = turn + 1
  /\ pc' = "idle"
  /\ UNCHANGED << rows, lastBooking, handler, messages, bodyBooking, confirmed,
                  missingBefore, toolTrace, i, pending, reply, storeCalls, completions,
                  gated, parsed, now, req, res, apiKey, callRequest, callResult >>

NextValidator ==
  \/ Validate
  \/ \E j \in 1..Len(REQUIRED_FIELDS), value \in SampleValues :
       EditField(REQUIRED_FIELDS[j], value)
  \/ \E j \in 1..Len(REQUIRED_FIELDS) : RemoveField(REQUIRED_FIELDS[j])

SpecValidator == InitValidator /\ [][NextValidator]_vars

\* s is only whitespace (or empty)
OnlyWhitespace(s) == \A j \in 1..Len(s) : s[j] \in {" ", "\t", "\n"}

\* c is the letter l in either case
SameLetter(c, l) ==
  \/ c = l
  \/ \E j \in 1..26 : LowerLetters[j] = l /\ UpperLetters[j] = c

\* s is one of the twelve month names, in any case, possibly padded with whitespace
IsMonthName(s) ==
  \E m \in 1..12 :
    \E lead \in 0..Len(s) :
      /\ lead + Len(MONTH_NAMES[m]) <= Len(s)
      /\ \A j \in 1..lead : s[j] \in {" ", "\t", "\n"}
      /\ \A j \in 1..Len(MONTH_NAMES[m]) : SameLetter(s[lead + j], MONTH_NAMES[m][j])
      /\ \A j \in (lead + Len(MONTH_NAMES[m]) + 1)..Len(s) : s[j] \in {" ", "\t", "\n"}

\* a required field that the draft lacks or holds in an unusable form
AbsentOrInvalid(draft, field) ==
  \/ draft = Null
  \/ field \notin DOMAIN draft
  \/ draft[field].k = "null"
  \/ draft[field].k = "string" /\ OnlyWhitespace(draft[field].s)
  \/ field \in NUMBER_FIELDS /\ draft[field].k # "number"
  \/ field \in BOOLEAN_FIELDS /\ draft[field].k # "boolean"
  \/ field = "arrival_date_month" /\ draft[field].k = "string" /\ ~IsMonthName(draft[field].s)

\* the place of a field in the catalog
CatalogIndex(field) == CHOOSE p \in 1..Len(REQUIRED_FIELDS) : REQUIRED_FIELDS[p] = field

\* list holds catalog fields only, each once, in catalog order
InCatalogOrder(list) ==
  /\ \A x \in 1..Len(list) : \E p \in 1..Len(REQUIRED_FIELDS) : REQUIRED_FIELDS[p] = list[x]
  /\ \A x \in 1..(Len(list) - 1) : CatalogIndex(list[x]) < CatalogIndex(list[x + 1])

InformationalTurn == pc = "done" /\ completions > 0 /\ ~gated /\ i < 2

\* C11: in an informational turn whose resulting draft has missing fields, the
\* reply is the prompt with one label line per field getMissingFields computes
\* for that draft, in catalog order (22 lines for an empty draft), whatever
\* missing_fields list the model returned
C11_PromptListsComputedFields ==
  LET computed == getMissingFields(booking)
  IN  (InformationalTurn /\ handler = "part_002" /\ computed # <<>>) =>
        /\ Len(reply.lines) = Len(computed)
        /\ \A j \in 1..Len(computed) : reply.lines[j] = FIELD_LABELS[computed[j]]
        /\ booking = Null => Len(reply.lines) = 22

\* C12: the trace of a finished turn holds one record per create or update
\* attempt and nothing else, so a turn that only reads returns an empty trace
C12_TraceOnlyMutations ==
  pc = "done" =>
    /\ Len(toolTrace) = Len(MutatingCalls)
    /\ \A j \in 1..Len(toolTrace) :
         toolTrace[j].name \in {"create_booking", "update_booking"}

\* C13: when the mutation of a complete, confirmed draft succeeds, the draft the
\* turn returns is the booking the store answered with (a row of its table, in
\* the store's shape) and the reply is the confirmation message
C13_SuccessReturnsStoredBooking ==
  ( /\ ConfirmedCompleteTurn /\ pc = "done"
    /\ storeCalls # <<>> /\ storeCalls[Len(storeCalls)].ok )
  => /\ reply = MSG_CONFIRMED
     /\ booking = toolTrace[Len(toolTrace)].result
     /\ \E r \in 1..Len(rows) : rows[r] = booking
     /\ {"id", "arrival_date", "created_at", "deleted_at"} \subseteq DOMAIN booking

\* C13 witness: a confirmed create succeeded and the returned draft is the
\* stored row, not the draft the caller sent
C13_Witness ==
  /\ ConfirmedCompleteTurn /\ pc = "done"
  /\ storeCalls[1].op = "createBooking" /\ storeCalls[1].ok
  /\ booking # bodyBooking
  /\ reply = MSG_CONFIRMED

\* C14: a turn makes at most two completion calls and ends with a reply, never
\* with an escaped exception; a step makes at most one store call, and only the
\* direct path or the handling of one proposed tool call makes it; a turn whose
\* two loop rounds both ended in tool calls returns the fallback reply
C14_BoundedTurn ==
  /\ [](completions <= 2)
  /\ [](pc # "threw")
  /\ [](pc = "done" /\ i = 2 => reply = MSG_FALLBACK /\ completions = 2)
  /\ [][ /\ Len(storeCalls') <= Len(storeCalls) + 1
         /\ Len(storeCalls') = Len(storeCalls) + 1
              => \/ pc = "direct"
                 \/ pc = "tools" /\ pending # <<>> /\ pending' = Tail(pending) ]_vars

\* ------------------------------------------------------------------------
\* The confirmation flag on its own: histories built message by message
\* ------------------------------------------------------------------------
\* messages a history may hold
MaxMessages == 3

\* what a message may say: the token, the token inside a sentence in another
\* case, a text without it, a truncated token
MessageTexts == {S_confirm, S_YesConfirm, S_looksGood, S_confir}

InitHistory == Init

\* the caller's history grows by one message of either role
AddMessage(role, content) ==
  /\ Len(messages) < MaxMessages
  /\ messages' = Append(messages, [role |-> role, content |-> content])
  /\ pc' = "idle"
  /\ UNCHANGED << rows, turn, lastBooking, handler, bodyBooking, confirmed, missingBefore,
                  booking, toolTrace, i, pending, reply, storeCalls, completions, gated,
                  parsed, now, req, res, apiKey, callRequest, callResult >>

\* POST reads the history and computes the flag
ReadConfirmation ==
  /\ pc = "idle"
  /\ confirmed' = Confirmed(messages)
  /\ pc' = "done"
  /\ UNCHANGED << rows, turn, lastBooking, handler, messages, bodyBooking, missingBefore,
                  booking, toolTrace, i, pending, reply, storeCalls, completions, gated,
                  parsed, now, req, res, apiKey, callRequest, callResult >>

NextHistory ==
  \/ \E role \in {"user", "assistant"}, content \in MessageTexts : AddMessage(role, content)
  \/ ReadConfirmation

SpecHistory == InitHistory /\ [][NextHistory]_vars

\* the latest message of role user carries the confirmation token
LatestUserMessageConfirms ==
  \E j \in 1..Len(messages) :
    /\ messages[j].role = "user"
    /\ \A l \in (j + 1)..Len(messages) : messages[l].role # "user"
    /\ ContainsConfirmToken(messages[j].content)

\* C15: the confirmation flag is true iff the latest user message contains
\* "confirm" in any case; an assistant message at the end of the history has no
\* part in it
C15_LatestUserMessageDecides ==
  pc = "done" => (confirmed <=> LatestUserMessageConfirms)

\* ------------------------------------------------------------------------
\* The draft merge on its own: deltas applied one after another
\* ------------------------------------------------------------------------
\* deltas applied to a starting draft
MaxMerges == 2

\* what parsed.draft may hold: nothing, null, a string, {}, objects that add a
\* field, overwrite one, set one to null or name a field outside the catalog,
\* and an array (an object whose keys are its indices)
SampleDeltas ==
  { Undefined, Null, Str(S_Aug), EmptyObject,
    [hotel |-> Str(S_CityHotel)],
    [hotel |-> Null],
    [adults |-> Num(4), note |-> Str(S_looksGood)],
    [id |-> Str(BookingId(1))],
    [x \in {"0"} |-> Str(S_BB)] }

InitMerge ==
  /\ booking \in {Null, EmptyObject, CompleteDraft, [hotel |-> Str(S_ResortHotel)]}
  /\ rows = <<>>
  /\ turn = 0
  /\ lastBooking = Null
  /\ pc = "idle"
  /\ handler = "part_002"
  /\ messages = <<>>
  /\ bodyBooking = Null
  /\ confirmed = FALSE
  /\ missingBefore = <<>>
  /\ toolTrace = <<>>
  /\ i = 0
  /\ pending = <<>>
  /\ reply = MSG_NONE
  /\ storeCalls = <<>>
  /\ completions = 0
  /\ gated = FALSE
  /\ parsed = ParsedNone
  /\ now = 0
  /\ req = NoRequest
  /\ res = NoResponse
  /\ apiKey = Undefined
  /\ callRequest = NoCall
  /\ callResult = NoResult

\* the draft returned by one turn comes back as the prior draft of the next,
\* and the delta of that turn's completion is merged into it
ApplyDelta(delta) ==
  /\ turn < MaxMerges
  /\ bodyBooking' = booking
  /\ parsed' = [message |-> "", draft |-> delta, missing_fields |-> <<>>]
  /\ booking' = MergeDraft(booking, delta)
  /\ turn' = turn + 1
  /\ pc' = "done"
  /\ UNCHANGED << rows, lastBooking, handler, messages, confirmed, missingBefore, toolTrace,
                  i, pending, reply, storeCalls, completions, gated, now, req, res, apiKey, callRequest, callResult >>

NextMerge == \E delta \in SampleDeltas : ApplyDelta(delta)

SpecMerge == InitMerge /\ [][NextMerge]_vars

\* C16: merging the delta that was just merged once more changes nothing, for
\* every prior draft (null included) and every delta
C16_MergeIdempotent ==
  pc = "done" => MergeDraft(booking, parsed.draft) = booking

\* C16 witness: a delta was merged into a null draft and started the draft
C16_Witness ==
  /\ pc = "done"
  /\ bodyBooking = Null
  /\ parsed.draft = [hotel |-> Str(S_CityHotel)]
  /\ booking = [hotel |-> Str(S_CityHotel)]

\* C17: the draft an informational turn returns is the prior working draft with
\* the delta merged one level deep: each field the delta names holds the delta's
\* value, each other field its prior value, and no other field appears; with no
\* delta the draft is the prior draft
C17_ShallowMerge ==
  InformationalTurn =>
    LET prior == LastResult(toolTrace, bodyBooking)
        delta == parsed.draft
        priorFields == IF prior = Null THEN {} ELSE DOMAIN prior
    IN  IF delta = Undefined
        THEN booking = prior
        ELSE /\ booking # Null
             /\ DOMAIN booking = priorFields \cup DOMAIN delta
             /\ \A f \in DOMAIN delta : booking[f] = delta[f]
             /\ \A f \in priorFields \ DOMAIN delta : booking[f] = prior[f]

\* C17 witness: a delta overwrote one field of a complete draft and left the
\* others as they were
C17_Witness ==
  /\ InformationalTurn
  /\ bodyBooking = CompleteDraft
  /\ parsed.draft = [adults |-> Num(4)]
  /\ booking["adults"] = Num(4)
  /\ booking["hotel"] = CompleteDraft["hotel"]

\* the validator was run on a draft whose arrival month is a string
MonthStringValidated ==
  /\ pc = "done"
  /\ booking # Null
  /\ "arrival_date_month" \in DOMAIN booking
  /\ booking["arrival_date_month"].k = "string"

\* the validator did not list the arrival month
MonthAccepted == \A p \in 1..Len(missingBefore) : missingBefore[p] # "arrival_date_month"

\* s is one of the twelve month names letter for letter, in any case
MatchesMonthName(s) ==
  \E m \in 1..12 :
    /\ Len(s) = Len(MONTH_NAMES[m])
    /\ \A j \in 1..Len(s) : SameLetter(s[j], MONTH_NAMES[m][j])

\* C18 as stated: "Aug" is listed as missing, and a month string is accepted
\* exactly when it matches one of the twelve month names in any case
C18_MonthAcceptedIffCanonical ==
  MonthStringValidated =>
    /\ booking["arrival_date_month"].s = S_Aug => ~MonthAccepted
    /\ MonthAccepted <=> MatchesMonthName(booking["arrival_date_month"].s)

\* C18 amended: "Aug" is listed as missing, and a month string is accepted
\* exactly when, with the whitespace around it removed, it matches one of the
\* twelve month names in any case
C18_MonthAcceptedIffCanonicalTrimmed ==
  MonthStringValidated =>
    /\ booking["arrival_date_month"].s = S_Aug => ~MonthAccepted
    /\ MonthAccepted <=> IsMonthName(booking["arrival_date_month"].s)

\* C18 witness: the month "Aug" is the one field listed as missing
C18_Witness ==
  /\ MonthStringValidated
  /\ booking["arrival_date_month"] = Str(S_Aug)
  /\ missingBefore = <<"arrival_date_month">>

\* the caller re-supplied a draft that is a booking of the store, as a create
\* (or a read or an update) returned it
ResuppliedStoredDraft ==
  /\ InTurn
  /\ bodyBooking # Null
  /\ \E r \in 1..Len(rows) : rows[r] = bodyBooking

\* C19: a turn that receives a stored booking as its draft never calls create
\* again: its writes are updates of the stored identifier
C19_NoSecondCreate ==
  (ResuppliedStoredDraft /\ handler = "part_002") =>
    \A j \in 1..Len(storeCalls) : storeCalls[j].op # "createBooking"

\* ------------------------------------------------------------------------
\* The booking API on its own: requests answered one after another
\* ------------------------------------------------------------------------
\* requests the store answers
MaxRequests == 4

\* the ids a request may name: the first two the table assigns and one it never does
StoreIds == {BookingId(1), BookingId(2), S_zz}

\* the secret the store is started with: none, the empty string, or a key
StoreSecrets == {Undefined, Str(<<>>), Str(S_confirm)}

\* the x-api-key header of a request: absent, the key, or another string
StoreHeaders == {Undefined, Str(S_confirm), Str(S_zz)}

\* bodies of POST: two valid bookings (the second names an agent and the
\* deletion marker), a month that is no name, a month that is a property every
\* object inherits, and {}
StorePostBodies ==
  { CompleteDraft,
    Spread(CompleteDraft, [agent |-> Str(S_zz), deleted_at |-> DateVal(9)]),
    With(CompleteDraft, "arrival_date_month", Str(S_Aug)),
    With(CompleteDraft, "arrival_date_month", Str(S_constructor)),
    EmptyObject }

\* bodies of PATCH: one field (valid, of the wrong kind), a month that is no
\* name, an inherited property, a day past the end of a month, a field that
\* is no part of the schema beside one that is, and {}
StorePatchBodies ==
  { [adults |-> Num(3)],
    [adults |-> Str(S_BB)],
    [arrival_date_month |-> Str(S_Aug)],
    [arrival_date_month |-> Str(S_constructor)],
    [arrival_date_month |-> Str(S_february), arrival_date_day_of_month |-> Num(31)],
    [deleted_at |-> Null, hotel |-> Str(S_CityHotel)],
    EmptyObject }

\* query strings of the list: none, the second page of one, a hotel, page 0
StoreQueries ==
  { EmptyObject,
    [page |-> Str(<<"2">>), page_size |-> Str(<<"1">>)],
    [hotel |-> Str(S_CityHotel)],
    [page |-> Str(<<"0">>)] }

\* the store starts empty, with the secret of its environment
InitStore ==
  /\ apiKey \in StoreSecrets
  /\ rows = <<>>
  /\ turn = 0
  /\ lastBooking = Null
  /\ pc = "idle"
  /\ handler = "part_002"
  /\ messages = <<>>
  /\ bodyBooking = Null
  /\ confirmed = FALSE
  /\ missingBefore = <<>>
  /\ booking = Null
  /\ toolTrace = <<>>
  /\ i = 0
  /\ pending = <<>>
  /\ reply = MSG_NONE
  /\ storeCalls = <<>>
  /\ completions = 0
  /\ gated = FALSE
  /\ parsed = ParsedNone
  /\ now = 0
  /\ req = NoRequest
  /\ res = NoResponse
  /\ callRequest = NoCall
  /\ callResult = NoResult

\* the store answers one request: the table, the clock and the exchange move on
Answer(method, id, body, header, response) ==
  /\ Len(response.rows) <= MaxBookings
  /\ now' = now + 1
  /\ rows' = response.rows
  /\ req' = [method |-> method, id |-> id, body |-> body, header |-> header]
  /\ res' = [status |-> response.status, code |-> response.code,
             message |-> response.message, data |-> response.data,
             pagination |-> IF "pagination" \in DOMAIN response
                            THEN response.pagination ELSE Undefined]
  /\ UNCHANGED << turn, lastBooking, pc, handler, messages, bodyBooking, confirmed,
                  missingBefore, booking, toolTrace, i, pending, reply, storeCalls,
                  completions, gated, parsed, apiKey, callRequest, callResult >>

StorePost(body, header) ==
  /\ now < MaxRequests
  /\ Answer("POST", <<>>, body, header,
            Guarded(apiKey, header, ApiCreateBooking(rows, body), rows))

StoreGet(id, header) ==
  /\ now < MaxRequests
  /\ Answer("GET", id, Undefined, header,
            Guarded(apiKey, header, ApiGetBooking(rows, id), rows))

StoreList(query, header) ==
  /\ now < MaxRequests
  /\ Answer("LIST", <<>>, query, header,
            Guarded(apiKey, header, ApiListBookings(rows, query), rows))

StorePatch(id, body, header) ==
  /\ now < MaxRequests
  /\ Answer("PATCH", id, body, header,
            Guarded(apiKey, header, ApiPatchBooking(rows, id, body), rows))

StoreDelete(id, header) ==
  /\ now < MaxRequests
  /\ Answer("DELETE", id, Undefined, header,
            Guarded(apiKey, header, ApiDeleteBooking(rows, id, now + 1), rows))

NextStore ==
  \/ \E body \in StorePostBodies, header \in StoreHeaders : StorePost(body, header)
  \/ \E id \in StoreIds, header \in StoreHeaders : StoreGet(id, header)
  \/ \E query \in StoreQueries, header \in StoreHeaders : StoreList(query, header)
  \/ \E id \in StoreIds, body \in StorePatchBodies, header \in StoreHeaders :
       StorePatch(id, body, header)
  \/ \E id \in StoreIds, header \in StoreHeaders : StoreDelete(id, header)

SpecStore == InitStore /\ [][NextStore]_vars

\* C20: no request removes a booking from the table or renumbers it; a deletion
\* marker is set only by a DELETE, which changes nothing else of the booking,
\* and a marker once set stays as it is
C20_SoftDeleteOnly ==
  [][ /\ Len(rows') >= Len(rows)
      /\ \A r \in 1..Len(rows) :
           /\ rows'[r]["id"] = rows[r]["id"]
           /\ rows[r]["deleted_at"] # Null => rows'[r]["deleted_at"] = rows[r]["deleted_at"]
           /\ rows'[r]["deleted_at"] # rows[r]["deleted_at"] =>
                /\ req'.method = "DELETE"
                /\ Without(rows'[r], "deleted_at") = Without(rows[r], "deleted_at")
      /\ req'.method = "DELETE" =>
           /\ Len(rows') = Len(rows)
           /\ \A r \in 1..Len(rows) :
                Without(rows'[r], "deleted_at") = Without(rows[r], "deleted_at") ]_vars

\* C20 witness: a PATCH or DELETE reached a booking already marked deleted and
\* was answered NOT_FOUND, the booking still in the table
C20_Witness ==
  /\ req.method \in {"PATCH", "DELETE"}
  /\ res.status = 404
  /\ \E r \in 1..Len(rows) :
       /\ rows[r]["id"] = Str(req.id)
       /\ rows[r]["deleted_at"] # Null


\* the rows of the table that carry no deletion marker
LiveRows(table) == {r \in 1..Len(table) : table[r]["deleted_at"] = Null}

\* the request just answered named, by id, a booking that was already soft-deleted
OnDeletedBooking ==
  /\ req'.method \in {"GET", "PATCH", "DELETE"}
  /\ \E r \in 1..Len(rows) : rows[r]["id"] = Str(req'.id) /\ rows[r]["deleted_at"] # Null

\* a list that was answered returns live bookings of the table only, and its
\* total counts no deleted one: all live bookings when the query has no filter
ListSkipsDeleted ==
  (req'.method = "LIST" /\ res'.status = 200) =>
    /\ \A j \in 1..Len(res'.data) :
         /\ res'.data[j]["deleted_at"] = Null
         /\ \E r \in LiveRows(rows) : rows[r] = res'.data[j]
    /\ res'.pagination.total <= Cardinality(LiveRows(rows))
    /\ DOMAIN req'.body \subseteq {"page", "page_size"} =>
         res'.pagination.total = Cardinality(LiveRows(rows))

\* C21 as stated: after a booking has been soft-deleted, every later GET, PATCH
\* or DELETE on its identifier returns NOT_FOUND (404) without changing the
\* record, and the list never returns it nor counts it in the pagination total
C21_Original ==
  [][ /\ OnDeletedBooking => (res'.status = 404 /\ res'.code = "NOT_FOUND" /\ rows' = rows)
      /\ ListSkipsDeleted ]_vars

\* C21 amended: after a booking has been soft-deleted, every later GET, PATCH or
\* DELETE on its identifier that passes the API-key guard returns NOT_FOUND
\* (404), except a PATCH whose payload fails validation, which returns
\* VALIDATION_ERROR (400); none of these requests changes the record, and the
\* list never returns the booking nor counts it in the pagination total
C21_DeletedStaysNotFound ==
  [][ /\ OnDeletedBooking =>
           /\ rows' = rows
           /\ apiKeyGuard(apiKey, req'.header) =>
                IF req'.method = "PATCH" /\ ~bookingPatchSchema(req'.body)
                THEN res'.status = 400 /\ res'.code = "VALIDATION_ERROR"
                ELSE res'.status = 404 /\ res'.code = "NOT_FOUND"
      /\ ListSkipsDeleted ]_vars

\* C21 witness: a list was answered over a table of one deleted and one live
\* booking, and its total is one
C21_Witness ==
  /\ req.method = "LIST"
  /\ res.status = 200
  /\ Len(rows) = 2
  /\ Cardinality(LiveRows(rows)) = 1
  /\ res.pagination.total = 1
  /\ Len(res.data) = 1


\* a stored booking has every required field, and each schema field it has
\* satisfies the rule create applies to that field
SatisfiesCreateRules(row) ==
  \A f \in SCHEMA_FIELDS : bookingBaseSchema(f, Get(row, f))

\* the body of the request just answered has a schema field that breaks the
\* rule create applies to it
SuppliesInvalidField ==
  \E f \in (DOMAIN req'.body) \cap SCHEMA_FIELDS : ~bookingBaseSchema(f, req'.body[f])

\* C22: a PATCH that passes the guard and supplies a field breaking the
\* create-time rule of that field, like a POST whose payload breaks a rule, is
\* answered VALIDATION_ERROR; a VALIDATION_ERROR is a 400 and leaves the table
\* as it was; so every stored booking satisfies, field by field, the rules of create
C22_PatchValidatesLikeCreate ==
  /\ [](\A r \in 1..Len(rows) : SatisfiesCreateRules(rows[r]))
  /\ [][ /\ (req'.method = "PATCH" /\ apiKeyGuard(apiKey, req'.header)
               /\ SuppliesInvalidField)
              => res'.code = "VALIDATION_ERROR"
         /\ (req'.method = "POST" /\ apiKeyGuard(apiKey, req'.header)
               /\ ~SatisfiesCreateRules(req'.body))
              => res'.code = "VALIDATION_ERROR"
         /\ res'.code = "VALIDATION_ERROR" => (res'.status = 400 /\ rows' = rows) ]_vars

\* C22 witness: a PATCH of a live booking supplied a field of the wrong kind
\* and was answered VALIDATION_ERROR
C22_Witness ==
  /\ req.method = "PATCH"
  /\ res.code = "VALIDATION_ERROR"
  /\ \E r \in 1..Len(rows) : rows[r]["id"] = Str(req.id) /\ rows[r]["deleted_at"] = Null
  /\ \E f \in (DOMAIN req.body) \cap SCHEMA_FIELDS : ~bookingBaseSchema(f, req.body[f])


\* the request just answered passed the guard, is a POST whose body satisfies
\* every rule of create or a PATCH of a live booking whose body satisfies the
\* rule of each field it supplies, and names a month that is none of the twelve
UnresolvableMonthRequest ==
  /\ apiKeyGuard(apiKey, req'.header)
  /\ \/ req'.method = "POST" /\ SatisfiesCreateRules(req'.body)
     \/ /\ req'.method = "PATCH"
        /\ ~SuppliesInvalidField
        /\ "arrival_date_month" \in DOMAIN req'.body
        /\ \E r \in LiveRows(rows) : rows[r]["id"] = Str(req'.id)
  /\ ~IsMonthName(req'.body["arrival_date_month"].s)

\* C23: a create or patch whose fields are otherwise valid but whose month name
\* resolves to no calendar index is rejected with INVALID_MONTH, not
\* VALIDATION_ERROR, and nothing is created or modified in the store
C23_InvalidMonthRejected ==
  [][ UnresolvableMonthRequest =>
        (res'.status = 400 /\ res'.code = "INVALID_MONTH" /\ rows' = rows) ]_vars


\* the store's computeArrivalDate returns a date for the month string of the
\* draft, rather than throw "Invalid month name"
StoreResolvesMonth ==
  computeArrivalDate(Num(2027), booking["arrival_date_month"], Num(15)).ok

\* C26: the core's month check and the store's month resolution agree on every
\* string: getMissingFields accepts a month string if and only if the store's
\* computeArrivalDate resolves it, so a draft judged complete is never rejected
\* by the store with INVALID_MONTH
C26_MonthChecksAgree ==
  MonthStringValidated =>
    /\ MonthAccepted <=> StoreResolvesMonth
    /\ missingBefore = <<>> => ApiCreateBooking(<<>>, booking).code # "INVALID_MONTH"


\* the month index of the month name a booking holds, trimmed and lower-cased
\* as the store reads it; -1 when it is none of the twelve
StoredMonthIndex(row) ==
  LET normalized == ToLowerCase(Trim(row["arrival_date_month"].s))
  IN  IF InList(MONTH_NAMES, normalized)
      THEN (CHOOSE m \in 1..12 : MONTH_NAMES[m] = normalized) - 1
      ELSE -1

\* the UTC date of the year, month and day a booking holds
DateOfFields(row) ==
  DateUTC(row["arrival_date_year"].n \div 2, StoredMonthIndex(row),
          row["arrival_date_day_of_month"].n \div 2)

\* the three fields the arrival date derives from
DATE_FIELDS == {"arrival_date_year", "arrival_date_month", "arrival_date_day_of_month"}

\* C27: after any sequence of requests every booking's arrival_date is the UTC
\* date of its current year, month and day; a PATCH that changes one of the
\* three recomputes it, and a PATCH that changes none leaves it as it was
C27_ArrivalDateDerived ==
  /\ [](\A r \in 1..Len(rows) :
          /\ StoredMonthIndex(rows[r]) >= 0
          /\ rows[r]["arrival_date"] = DateOfFields(rows[r]))
  /\ [][ \A r \in 1..Len(rows) :
            (\A f \in DATE_FIELDS : rows'[r][f] = rows[r][f])
              => rows'[r]["arrival_date"] = rows[r]["arrival_date"] ]_vars

\* C27 witness: a PATCH changed the month and the day of a booking and was
\* answered with a booking whose arrival date rolled into the next month
C27_Witness ==
  /\ req.method = "PATCH"
  /\ res.status = 200
  /\ "arrival_date_day_of_month" \in DOMAIN req.body
  /\ \E r \in 1..Len(rows) :
       /\ rows[r]["id"] = Str(req.id)
       /\ rows[r]["arrival_date_month"] = Str(S_february)
       /\ rows[r]["arrival_date"] = DateVal(20270303)


\* C28: a successful PATCH changes, of the booking it names, only schema fields
\* present in the patch, giving each the patch's value, and the derived
\* arrival_date; every other field of that booking, agent and company included
\* when the patch does not name them, and every other booking, is left as it was
C28_PatchFrame ==
  [][ (req'.method = "PATCH" /\ res'.status = 200) =>
        /\ Len(rows') = Len(rows)
        /\ \E r \in LiveRows(rows) :
             /\ rows[r]["id"] = Str(req'.id)
             /\ res'.data = rows'[r]
             /\ \A q \in 1..Len(rows) : q # r => rows'[q] = rows[q]
             /\ DOMAIN rows'[r] = DOMAIN rows[r]
             /\ \A f \in (DOMAIN req'.body) \cap SCHEMA_FIELDS : rows'[r][f] = req'.body[f]
             /\ \A f \in DOMAIN rows[r] :
                  f \notin ((DOMAIN req'.body) \cap SCHEMA_FIELDS) \cup {"arrival_date"}
                    => rows'[r][f] = rows[r][f] ]_vars

\* C28 witness: a PATCH that names neither agent nor company changed a booking
\* that has an agent, beside another booking in the table
C28_Witness ==
  /\ req.method = "PATCH"
  /\ res.status = 200
  /\ Len(rows) = 2
  /\ req.body # EmptyObject
  /\ "agent" \notin DOMAIN req.body
  /\ \E r \in 1..Len(rows) :
       /\ rows[r]["id"] = Str(req.id)
       /\ rows[r]["agent"] # Null
       /\ \E f \in DOMAIN req.body : rows[r][f] = req.body[f] /\ CompleteDraft[f] # req.body[f]


\* the store was started with a non-empty HOTEL_API_KEY
SecretConfigured == apiKey.k = "string" /\ apiKey.s # <<>>

\* C29: with a secret configured, a request whose x-api-key header is absent or
\* differs from it is answered 401 UNAUTHORIZED with no booking in the answer
\* and the table as it was; a request that carries the secret, and every
\* request when no secret is configured, is never answered UNAUTHORIZED
C29_GuardBeforeHandlers ==
  [][ /\ (SecretConfigured /\ req'.header # apiKey) =>
           /\ res'.status = 401
           /\ res'.code = "UNAUTHORIZED"
           /\ res'.data = Undefined
           /\ rows' = rows
      /\ (~SecretConfigured \/ req'.header = apiKey) =>
           (res'.status # 401 /\ res'.code # "UNAUTHORIZED") ]_vars

\* C29 witness: with a secret configured, a DELETE without the header named a
\* live booking and was answered 401, the booking still live
C29_Witness ==
  /\ SecretConfigured
  /\ req.method = "DELETE"
  /\ req.header = Undefined
  /\ res.status = 401
  /\ \E r \in LiveRows(rows) : rows[r]["id"] = Str(req.id)


\* ------------------------------------------------------------------------
\* MCP server: the tools/call handler (packages/mcp/src/server.ts) over the
\* client and the booking API
\* ------------------------------------------------------------------------
MaxCalls == 3

S_smoke == <<"s", "m", "o", "k", "e">>

\* the decimal digits of a natural number
RECURSIVE NatToDigits(_)
NatToDigits(x) ==
  IF x < 10 THEN <<IdDigitsFromZero[x + 1]>>
  ELSE NatToDigits(x \div 10) \o <<IdDigitsFromZero[(x % 10) + 1]>>

\* one value as JSON.stringify writes it and JSON.parse reads it back: a Date
\* comes back as the string of its toJSON(), an object inside an object as it is
JsonValue(v) ==
  IF IsObject(v) THEN v
  ELSE IF v.k = "date" THEN Str(NatToDigits(v.n))
  ELSE v

\* JSON.parse(JSON.stringify(v)) of an object or a value: keys whose value is
\* undefined are not written
Jsonify(v) ==
  IF IsObject(v)
  THEN [f \in {g \in DOMAIN v : v[g] # Undefined} |-> JsonValue(v[f])]
  ELSE JsonValue(v)

\* JSON.stringify(v, null, 2): undefined for undefined, else a text
JsonStringify(v) == IF v = Undefined THEN Undefined ELSE [json |-> Jsonify(v)]

\* JSON.parse(text)
JsonParse(text) == text.json

\* createBookingSchema.parse succeeds: { payload: z.record(z.unknown()) }
createBookingSchema(args) ==
  /\ IsObject(args)
  /\ "payload" \in DOMAIN args
  /\ IsObject(args["payload"])

\* updateBookingSchema.parse succeeds: { id: z.string(), patch: z.record(z.unknown()) }
updateBookingSchema(args) ==
  /\ IsObject(args)
  /\ "id" \in DOMAIN args
  /\ ~IsObject(args["id"])
  /\ args["id"].k = "string"
  /\ "patch" \in DOMAIN args
  /\ IsObject(args["patch"])

\* getBookingSchema.parse succeeds: { id: z.string() }
getBookingSchema(args) ==
  /\ IsObject(args)
  /\ "id" \in DOMAIN args
  /\ ~IsObject(args["id"])
  /\ args["id"].k = "string"

\* the tools the handler knows
TOOL_NAMES == {"create_booking", "update_booking", "get_booking"}

\* the schema of the named tool accepts the arguments
ToolSchema(name, args) ==
  CASE name = "create_booking" -> createBookingSchema(args)
    [] name = "update_booking" -> updateBookingSchema(args)
    [] name = "get_booking" -> getBookingSchema(args)

\* error.message of a ZodError
ZodErrorMessage == "ZodError: invalid arguments"

\* the wire of a call: the store reachable, unreachable, or fetch replaced by
\* the stub of the smoke test
McpNetworks == Networks \cup {"stub"}

\* the stubbed fetch of the smoke test: 200 { data: { id: "smoke" } } to any request
fetchStub(table) == OkResponse(200, [id |-> Str(S_smoke)], table)

\* the answer of the store to the request the named tool sends
StoreResponse(table, name, args, net) ==
  IF net = "stub" THEN fetchStub(table)
  ELSE CASE name = "create_booking" -> ApiCreateBooking(table, RequestBody(args["payload"]))
         [] name = "update_booking" ->
              ApiPatchBooking(table, PathId(args["id"]), RequestBody(args["patch"]))
         [] name = "get_booking" -> ApiGetBooking(table, PathId(args["id"]))

\* the client function of the named tool, awaited
ClientCall(table, name, args, net) ==
  IF net = "stub" THEN requestJson("up", fetchStub(table), table)
  ELSE CASE name = "create_booking" -> createBooking(table, args["payload"], net)
         [] name = "update_booking" -> updateBooking(table, args["id"], args["patch"], net)
         [] name = "get_booking" -> getBooking(table, args["id"], net)

\* a handler that returns the whole { data } envelope as the text
ToolSuccessEnvelope(value) ==
  [ isError |-> FALSE,
    content |-> <<[type |-> "text", text |-> JsonStringify([data |-> value])]>>,
    threw |-> FALSE ]

\* return { content: [{ type: "text", text: JSON.stringify(booking, null, 2) }] }
ToolSuccess(value) ==
  [ isError |-> FALSE,
    content |-> <<[type |-> "text", text |-> JsonStringify(value)]>>,
    threw |-> FALSE ]

\* a handler without the catch: the error reaches the transport
ToolFailureRethrown(message, details) ==
  [isError |-> FALSE, content |-> <<>>, threw |-> TRUE]

\* the catch block: { isError: true, content: [{ type: "text", text:
\* JSON.stringify({ message, details }) }] }; message is the chunks of error.message
ToolFailure(message, details) ==
  [ isError |-> TRUE,
    content |-> <<[type |-> "text",
                   text |-> JsonStringify([message |-> Str(message), details |-> details])]>>,
    threw |-> FALSE ]

\* error.details as requestJson sets it: the error envelope of a non-2xx answer
ErrorDetails(response, net) ==
  IF net # "down" /\ response.status \notin {200, 201}
  THEN [code |-> Str(<<response.code>>), message |-> Str(<<response.message>>)]
  ELSE Undefined

\* the CallToolRequest handler: the result it resolves to and the table after it
CallToolHandler(table, name, args, net) ==
  IF name \notin TOOL_NAMES
  THEN [result |-> ToolFailure(<<"Unknown tool: ", name>>, Undefined), rows |-> table]
  ELSE IF ~ToolSchema(name, args)
  THEN [result |-> ToolFailure(<<ZodErrorMessage>>, Undefined), rows |-> table]
  ELSE
    LET outcome == ClientCall(table, name, args, net)
    IN  IF outcome.ok
        THEN [result |-> ToolSuccess(outcome.value), rows |-> outcome.rows]
        ELSE [ result |-> ToolFailure(<<outcome.error>>,
                            ErrorDetails(StoreResponse(table, name, args, net), net)),
               rows |-> outcome.rows ]

\* the names a tools/call request may carry: the three tools and one unknown
McpNames == TOOL_NAMES \cup {"delete_booking"}

\* the arguments a tools/call request may carry: none, a payload (valid,
\* refused by the store, not an object), an id (live, unknown, not a string),
\* an id with a patch (valid, refused by the store)
McpArguments ==
  { Undefined,
    [payload |-> CompleteDraft],
    [payload |-> With(CompleteDraft, "arrival_date_month", Str(S_Aug))],
    [payload |-> Str(S_zz)],
    [id |-> Str(BookingId(1))],
    [id |-> Str(S_smoke)],
    [id |-> Num(1)],
    [id |-> Str(BookingId(1)), patch |-> [adults |-> Num(3)]],
    [id |-> Str(BookingId(1)), patch |-> [adults |-> Str(S_BB)]] }

InitMcp == Init

\* one tools/call request is handled: the store exchange it made, if it made
\* one, and the result it resolved to
CallTool(name, args, net) ==
  /\ now < MaxCalls
  /\ LET handled == CallToolHandler(rows, name, args, net)
         sent == name \in TOOL_NAMES /\ ToolSchema(name, args) /\ net # "down"
         response == StoreResponse(rows, name, args, net)
     IN  /\ Len(handled.rows) <= MaxBookings
         /\ callRequest' = [name |-> name, arguments |-> args]
         /\ callResult' = handled.result
         /\ rows' = handled.rows
         /\ req' = IF sent
                   THEN [method |-> name, id |-> <<>>, body |-> args, header |-> Undefined]
                   ELSE NoRequest
         /\ res' = IF sent
                   THEN [status |-> response.status, code |-> response.code,
                         message |-> response.message, data |-> response.data,
                         pagination |-> Undefined]
                   ELSE NoResponse
  /\ now' = now + 1
  /\ UNCHANGED << turn, lastBooking, pc, handler, messages, bodyBooking, confirmed,
                  missingBefore, booking, toolTrace, i, pending, reply, storeCalls,
                  completions, gated, parsed, apiKey >>

NextMcp == \E name \in McpNames, args \in McpArguments, net \in McpNetworks :
             CallTool(name, args, net)

SpecMcp == InitMcp /\ [][NextMcp]_vars

\* the request just handled named a known tool with arguments its schema accepts
ValidToolCall ==
  /\ callRequest.name \in TOOL_NAMES
  /\ ToolSchema(callRequest.name, callRequest.arguments)

\* C24: a tools/call request for get_booking, create_booking or update_booking
\* with valid arguments that the store answers with success resolves to a
\* result that is no error and has a single content item, of type text, whose
\* text parses to the booking in the data field of the store's response; the
\* stubbed response { data: { id: "smoke" } } yields a payload with id "smoke"
C24_ToolReturnsStoreData ==
  (ValidToolCall /\ res.status \in {200, 201}) =>
    /\ ~callResult.isError
    /\ ~callResult.threw
    /\ Len(callResult.content) = 1
    /\ callResult.content[1].type = "text"
    /\ JsonParse(callResult.content[1].text) = Jsonify(res.data)
    /\ res.data = [id |-> Str(S_smoke)] =>
         JsonParse(callResult.content[1].text)["id"] = Str(S_smoke)

\* C24 witness: get_booking named a booking of the table and the store answered
\* with it
C24_Witness ==
  /\ callRequest.name = "get_booking"
  /\ res.status = 200
  /\ \E r \in 1..Len(rows) : res.data = rows[r] /\ Str(PathId(callRequest.arguments["id"])) = rows[r]["id"]
  /\ ~callResult.isError

\* the text of the result's content item parses to an object whose message is
\* the given error message
CarriesMessage(message) ==
  /\ Len(callResult.content) = 1
  /\ callResult.content[1].type = "text"
  /\ JsonParse(callResult.content[1].text)["message"] = Str(message)

\* C30: every tools/call request resolves to a result and none throws to the
\* transport; an unknown tool name, arguments the tool's schema refuses and a
\* store call that fails (the store unreachable, or its answer not a success)
\* each give a result with isError true whose text carries the error message
C30_ErrorsBecomeResults ==
  callRequest # NoCall =>
    /\ ~callResult.threw
    /\ callRequest.name \notin TOOL_NAMES =>
         callResult.isError /\ CarriesMessage(<<"Unknown tool: ", callRequest.name>>)
    /\ (callRequest.name \in TOOL_NAMES /\ ~ValidToolCall) =>
         callResult.isError /\ CarriesMessage(<<ZodErrorMessage>>)
    /\ (ValidToolCall /\ req = NoRequest) =>
         callResult.isError /\ CarriesMessage(<<"fetch failed">>)
    /\ (ValidToolCall /\ req # NoRequest /\ res.status \notin {200, 201}) =>
         callResult.isError /\ CarriesMessage(<<res.message>>)

\* C30 witness: update_booking with valid arguments named a booking the store
\* does not have, and the result is an error that says so
C30_Witness ==
  /\ callRequest.name = "update_booking"
  /\ ValidToolCall
  /\ res.status = 404
  /\ callResult.isError
  /\ CarriesMessage(<<"Booking not found">>)


\* the tool name under which a call of the client is traced
TracedName(op) ==
  CASE op = "createBooking" -> "create_booking"
    [] op = "updateBooking" -> "update_booking"
    [] op = "getBooking" -> "get_booking"

\* C25: within a turn the trace has one entry for each call made to the store,
\* in the order of the calls: it names the call's tool and carries the value
\* the call returned, or the message of the error it threw; once the gate has
\* refused a mutating call the trace holds no entry of a mutating tool
C25_TraceMatchesStoreCalls ==
  InTurn =>
    /\ Len(toolTrace) = Len(storeCalls)
    /\ \A j \in 1..Len(storeCalls) :
         /\ toolTrace[j].name = TracedName(storeCalls[j].op)
         /\ storeCalls[j].ok =>
              (~toolTrace[j].failed /\ toolTrace[j].result = storeCalls[j].value)
         /\ ~storeCalls[j].ok =>
              (toolTrace[j].failed /\ toolTrace[j].error = storeCalls[j].error)
    /\ gated => \A j \in 1..Len(toolTrace) : toolTrace[j].name \notin {"create_booking", "update_booking"}

\* C25 witness: two calls of one turn reached the store, the first refused by
\* it and the second answered, and the trace holds the two in that order
C25_Witness ==
  /\ InTurn
  /\ Len(storeCalls) = 2
  /\ ~storeCalls[1].ok /\ storeCalls[2].ok
  /\ toolTrace[1].failed /\ ~toolTrace[2].failed
  /\ toolTrace[2].result # Undefined
====
